---- MODULE Spec2Model ----
(***************************************************************************)
(* HealthSync front end: the progress tracker (tabs, time range, goal      *)
(* form, the four loads and their renderers) and the health-consultation   *)
(* module's health-tips cache, as state machines over the DOM surfaces     *)
(* they write and the requests they have in flight; the symptom analysis   *)
(* renderer and formatResponse as functions; and the API server as a state *)
(* machine over its user store, its files and the response it sends; the   *)
(* page's Auth object over the two localStorage items it keeps; and the    *)
(* symptom-prediction module over its containers and fetches in flight.    *)
(***************************************************************************)
EXTENDS Integers, Sequences, FiniteSets, TLC

\* ------------------------------------------------------------------------
\* Bounds of the model
\* ------------------------------------------------------------------------

\* Requests the progress tracker sends in one page session.
MaxRequests == 2

\* Requests the health-consultation module sends in one page session.
MaxHcRequests == 4

\* ------------------------------------------------------------------------
\* JavaScript values.  A JSON object is a record of its fields; every other
\* value is a record with one tag field, so that values of different types
\* can be held side by side.
\* ------------------------------------------------------------------------

Num(n) == [num |-> n]

Str(s) == [str |-> s]

Arr(s) == [arr |-> s]

Undefined == [undef |-> TRUE]

Null == [null |-> TRUE]

Bool(b) == [bool |-> b]

IsNum(v) == "num" \in DOMAIN v

IsStr(v) == "str" \in DOMAIN v

IsArr(v) == "arr" \in DOMAIN v

IsUndefined(v) == "undef" \in DOMAIN v

\* obj.f : a missing property reads as undefined.
Get(obj, f) == IF f \in DOMAIN obj THEN obj[f] ELSE Undefined

\* ToBoolean: undefined, null, false, 0 and '' are falsy; objects and arrays
\* (also the empty array) are truthy.
Truthy(v) ==
    CASE IsUndefined(v) -> FALSE
      [] IsNum(v) -> v.num # 0
      [] IsStr(v) -> v.str # ""
      [] "bool" \in DOMAIN v -> v.bool
      [] "null" \in DOMAIN v -> FALSE
      [] OTHER -> TRUE

\* a || b
OrElse(a, b) == IF Truthy(a) THEN a ELSE b

\* ------------------------------------------------------------------------
\* Markup.  innerHTML of a surface is modelled by its element structure.
\* ------------------------------------------------------------------------

Empty == [kind |-> "empty"]

AlertInfo(m) == [kind |-> "alert-info", message |-> m]

AlertDanger(t) == [kind |-> "alert-danger", text |-> t]

\* <p><strong>label:</strong> values...</p> ; values are the interpolated
\* expressions and the literal text between them, in order.
P(label, values) == [tag |-> "p", label |-> label, values |-> values]

H5(t) == [tag |-> "h5", text |-> t]

Ul(items) == [tag |-> "ul", items |-> items]

Card(header, body) == [kind |-> "card", header |-> header, body |-> body]

\* The block every renderer appends for a non-empty insights list.
InsightsBlock(data) ==
    LET ins == Get(data, "insights") IN
    IF Truthy(ins) /\ IsArr(ins) /\ Len(ins.arr) > 0
    THEN << H5("Insights:"), Ul(ins.arr) >>
    ELSE << >>

\* s.charAt(0).toUpperCase() + s.slice(1), on the strings the payloads use.
Capitalize(s) ==
    CASE s = "increasing" -> "Increasing"
      [] s = "decreasing" -> "Decreasing"
      [] s = "stable" -> "Stable"
      [] OTHER -> s

\* new Date(d).toLocaleDateString(), on the dates the payloads use; any other
\* argument gives an invalid date.
ToLocaleDateString(d) ==
    IF ~IsStr(d) THEN Str("Invalid Date")
    ELSE CASE d.str = "2024-01-01" -> Str("1/1/2024")
           [] d.str = "2024-01-30" -> Str("1/30/2024")
           [] OTHER -> Str("Invalid Date")

\* ------------------------------------------------------------------------
\* Payloads of the analytics service (the service itself is external).
\* Numbers are integers.
\* ------------------------------------------------------------------------

Success == Str("success")

WeightOk ==
    [ status |-> Success,
      first_measurement |-> [date |-> Str("2024-01-01"), weight_kg |-> Num(80)],
      latest_measurement |-> [date |-> Str("2024-01-30"), weight_kg |-> Num(75)],
      total_change_kg |-> Num(-5),
      percent_change |-> Num(-6),
      weekly_change_rate_kg |-> Num(-1),
      trend |-> Str("decreasing"),
      insights |-> Arr(<< Str("You are losing weight steadily") >>) ]

WeightFail ==
    [ status |-> Str("insufficient_data"),
      message |-> Str("Not enough weight data") ]

BpOk ==
    [ status |-> Success,
      average_systolic |-> Num(125), average_diastolic |-> Num(82),
      min_systolic |-> Num(118), min_diastolic |-> Num(76),
      max_systolic |-> Num(135), max_diastolic |-> Num(88),
      category |-> Str("elevated"),
      data_points |-> Num(6),
      insights |-> Arr(<< Str("Your blood pressure is slightly elevated") >>) ]

BpFail ==
    [ status |-> Str("insufficient_data"),
      message |-> Str("Not enough blood pressure data") ]

\* goal type weight, target 70, initial 80, current 75
GoalOk(pp) ==
    [ status |-> Success,
      goal_type |-> Str("weight"),
      target_value |-> Num(70),
      initial_value |-> Num(80),
      current_value |-> Num(75),
      progress_percentage |-> Num(pp),
      insights |-> Arr(<< Str("Keep going") >>) ]

GoalFail ==
    [ status |-> Str("error"),
      message |-> Str("No measurements found for this goal") ]

UserInfo ==
    [ name |-> Str("Asha"), age |-> Num(34), gender |-> Str("female"),
      height_cm |-> Num(165), current_weight_kg |-> Num(75) ]

Summary ==
    [ data_points_collected |-> Num(12), days_tracked |-> Num(30),
      metrics_tracked |-> Arr(<< Str("weight"), Str("blood_pressure") >>) ]

NutritionOk ==
    [ status |-> Success,
      average_daily_calories |-> Num(2100),
      days_tracked |-> Num(14),
      meal_frequency |-> Arr(<< << Str("breakfast"), Num(12) >> >>) ]

NutritionFail ==
    [ status |-> Str("insufficient_data"), message |-> Str("No meals logged") ]

SymptomsOk ==
    [ status |-> Success,
      most_frequent_symptoms |-> Arr(<< << Str("headache"), Num(3) >> >>),
      time_patterns |-> Arr(<< [symptom |-> Str("headache"), time |-> Str("evening")] >>) ]

SymptomsFail ==
    [ status |-> Str("insufficient_data"), message |-> Str("No symptoms logged") ]

ReportBase ==
    [ status |-> Success,
      user_info |-> UserInfo,
      report_date |-> Str("2024-01-30"),
      summary |-> Summary,
      recommendations |-> Arr(<< Str("Drink more water") >>) ]

\* obj with field f set to v (obj may or may not have f already)
With(obj, f, v) ==
    [ g \in DOMAIN obj \cup {f} |-> IF g = f THEN v ELSE obj[g] ]

\* A successful analysis with its insights list replaced
WithInsights(data, ins) == With(data, "insights", Arr(ins))

ReportFull ==
    With(With(With(With(ReportBase,
        "weight_analysis", WeightOk),
        "blood_pressure_analysis", BpOk),
        "nutrition_summary", NutritionOk),
        "symptom_patterns", SymptomsOk)

\* A report whose weight section is a failure value (message only).
ReportWeightFailed ==
    With(With(ReportBase,
        "weight_analysis", WeightFail),
        "blood_pressure_analysis", BpOk)

\* A report whose blood-pressure section is a failure value (message only).
ReportBpFailed ==
    With(With(ReportBase,
        "weight_analysis", WeightOk),
        "blood_pressure_analysis", BpFail)

ReportFail ==
    [ status |-> Str("error"), message |-> Str("User has no health data") ]

\* obj with field f set to v, or without f when v is undefined (a JSON body has
\* no undefined members)
WithOptional(obj, f, v) == IF v = Undefined THEN obj ELSE With(obj, f, v)

\* The successful reports: identity and summary, and each further section
\* absent, present with a success value or present with a failure value; the
\* recommendations absent, empty or filled.
Reports ==
    { WithOptional(WithOptional(WithOptional(WithOptional(WithOptional(
          [ status |-> Success, user_info |-> UserInfo,
            report_date |-> Str("2024-01-30"), summary |-> Summary ],
          "weight_analysis", w),
          "blood_pressure_analysis", b),
          "nutrition_summary", n),
          "symptom_patterns", y),
          "recommendations", r) :
        w \in {Undefined, WeightOk, WeightFail},
        b \in {Undefined, BpOk},
        n \in {Undefined, NutritionOk, NutritionFail},
        y \in {Undefined, SymptomsOk, SymptomsFail},
        r \in {Undefined, Arr(<< >>), Arr(<< Str("Drink more water") >>)} }

\* ------------------------------------------------------------------------
\* Category mappers: lookups in object literals.  A key that is not an own
\* property of the literal but a property of Object.prototype reads the
\* inherited member; every other key reads undefined.
\* ------------------------------------------------------------------------

ObjectPrototypeKeys == {"constructor", "toString", "valueOf", "hasOwnProperty"}

Inherited(key) == [inherited |-> key]

categoryMap(key) ==
    IF ~IsStr(key) THEN Undefined
    ELSE CASE key.str = "normal" -> Str("Normal")
           [] key.str = "elevated" -> Str("Elevated")
           [] key.str = "hypertension_stage_1" -> Str("Hypertension Stage 1")
           [] key.str = "hypertension_stage_2" -> Str("Hypertension Stage 2")
           [] key.str = "hypertensive_crisis" -> Str("Hypertensive Crisis")
           [] key.str = "unknown" -> Str("Unknown")
           [] key.str \in ObjectPrototypeKeys -> Inherited(key.str)
           [] OTHER -> Undefined

goalTypeMap(key) ==
    IF ~IsStr(key) THEN Undefined
    ELSE CASE key.str = "weight" -> Str("Weight")
           [] key.str = "blood_sugar" -> Str("Blood Sugar")
           [] key.str = "blood_pressure" -> Str("Blood Pressure")
           [] key.str \in ObjectPrototypeKeys -> Inherited(key.str)
           [] OTHER -> Undefined

\* categoryMap[data.category] || data.category
CategoryLabel(key) == OrElse(categoryMap(key), key)

\* goalTypeMap[data.goal_type] || data.goal_type
GoalTypeLabel(key) == OrElse(goalTypeMap(key), key)

\* ------------------------------------------------------------------------
\* Renderers of the progress tracker.  Each XThrows(data) is the condition
\* under which the renderer raises a TypeError before it writes anything.
\* ------------------------------------------------------------------------

Canvas(id, chart) == [kind |-> "canvas", id |-> id, chart |-> chart]

\* WeightSeries adding the latest measurement whatever its date
WeightSeries_AlwaysLatest(data) ==
    LET first == Get(data, "first_measurement")
        latest == Get(data, "latest_measurement")
    IN  IF Truthy(first) /\ Truthy(latest)
        THEN IF TRUE
             THEN [ labels |-> << ToLocaleDateString(Get(first, "date")),
                                  ToLocaleDateString(Get(latest, "date")) >>,
                    data |-> << Get(first, "weight_kg"), Get(latest, "weight_kg") >> ]
             ELSE [ labels |-> << ToLocaleDateString(Get(first, "date")) >>,
                    data |-> << Get(first, "weight_kg") >> ]
        ELSE [ labels |-> << >>, data |-> << >> ]

\* The series renderWeightChart draws: first measurement, then the latest one
\* when its date differs.
WeightSeries(data) ==
    LET first == Get(data, "first_measurement")
        latest == Get(data, "latest_measurement")
    IN  IF Truthy(first) /\ Truthy(latest)
        THEN IF Get(first, "date") # Get(latest, "date")
             THEN [ labels |-> << ToLocaleDateString(Get(first, "date")),
                                  ToLocaleDateString(Get(latest, "date")) >>,
                    data |-> << Get(first, "weight_kg"), Get(latest, "weight_kg") >> ]
             ELSE [ labels |-> << ToLocaleDateString(Get(first, "date")) >>,
                    data |-> << Get(first, "weight_kg") >> ]
        ELSE [ labels |-> << >>, data |-> << >> ]

renderWeightChart(data) ==
    Canvas("weight-chart",
           [ type |-> "line", label |-> "Weight (kg)",
             labels |-> WeightSeries(data).labels,
             data |-> WeightSeries(data).data ])

\* data.trend.charAt(0).toUpperCase() + data.trend.slice(1)
TrendLabel(obj) == Str(Capitalize(Get(obj, "trend").str))

renderWeightInsightsThrows(data) ==
    Get(data, "status") = Success /\ ~IsStr(Get(data, "trend"))

renderWeightInsights(data) ==
    Card("Weight Insights",
         IF Get(data, "status") = Success
         THEN << P("Total Change", << Get(data, "total_change_kg"), Str(" kg ("),
                                      Get(data, "percent_change"), Str("%)") >>),
                 P("Weekly Change Rate", << Get(data, "weekly_change_rate_kg"),
                                            Str(" kg/week") >>),
                 P("Trend", << TrendLabel(data) >>) >>
              \o InsightsBlock(data)
         ELSE << P("", << Get(data, "message") >>) >>)

renderBloodPressureChart(data) ==
    Canvas("bp-chart",
           [ type |-> "bar",
             labels |-> << "Systolic", "Diastolic" >>,
             datasets |-> <<
               [ label |-> "Average",
                 data |-> << Get(data, "average_systolic"), Get(data, "average_diastolic") >> ],
               [ label |-> "Min",
                 data |-> << Get(data, "min_systolic"), Get(data, "min_diastolic") >> ],
               [ label |-> "Max",
                 data |-> << Get(data, "max_systolic"), Get(data, "max_diastolic") >> ] >> ])

renderBloodPressureInsights(data) ==
    Card("Blood Pressure Insights",
         IF Get(data, "status") = Success
         THEN << P("Average", << Get(data, "average_systolic"), Str("/"),
                                 Get(data, "average_diastolic"), Str(" mmHg") >>),
                 P("Category", << CategoryLabel(Get(data, "category")) >>),
                 P("Data Points", << Get(data, "data_points") >>) >>
              \o InsightsBlock(data)
         ELSE << P("", << Get(data, "message") >>) >>)

\* The progress bar: the width style, the aria value and the visible text
\* all interpolate data.progress_percentage as it came.
ProgressBar(data) ==
    [ tag |-> "progress-bar",
      width |-> << Get(data, "progress_percentage"), Str("%") >>,
      valuenow |-> Get(data, "progress_percentage"),
      valuemin |-> Num(0),
      valuemax |-> Num(100),
      text |-> << Get(data, "progress_percentage"), Str("%") >> ]

renderGoalProgress(data) ==
    IF Get(data, "status") = Success
    THEN Card("Goal Progress",
              << P("Goal Type", << GoalTypeLabel(Get(data, "goal_type")) >>),
                 P("Target Value", << Get(data, "target_value") >>),
                 P("Initial Value", << Get(data, "initial_value") >>),
                 P("Current Value", << Get(data, "current_value") >>),
                 ProgressBar(data) >>
              \o InsightsBlock(data))
    ELSE AlertInfo(Get(data, "message"))

\* ------------------------------------------------------------------------
\* renderHealthReport
\* ------------------------------------------------------------------------

UserInfoSection(data) ==
    LET u == Get(data, "user_info") IN
    Card("User Information",
         << P("Name", << Get(u, "name") >>) >>
         \o (IF Truthy(Get(u, "age")) THEN << P("Age", << Get(u, "age") >>) >> ELSE << >>)
         \o << P("Gender", << Get(u, "gender") >>),
               P("Height", << Get(u, "height_cm"), Str(" cm") >>) >>
         \o (IF Truthy(Get(u, "current_weight_kg"))
             THEN << P("Current Weight", << Get(u, "current_weight_kg"), Str(" kg") >>) >>
             ELSE << >>))

SummarySection(data) ==
    LET m == Get(data, "summary") IN
    Card("Summary",
         << P("Report Date", << ToLocaleDateString(Get(data, "report_date")) >>),
            P("Data Points Collected", << Get(m, "data_points_collected") >>),
            P("Days Tracked", << Get(m, "days_tracked") >>),
            P("Metrics Tracked", Get(m, "metrics_tracked").arr) >>)

\* Entered whenever data.weight_analysis is truthy; its status is not read.
WeightAnalysisSection(data) ==
    LET w == Get(data, "weight_analysis") IN
    IF Truthy(w)
    THEN << Card("Weight Analysis",
                 << P("Total Change", << Get(w, "total_change_kg"), Str(" kg ("),
                                         Get(w, "percent_change"), Str("%)") >>),
                    P("Weekly Change Rate", << Get(w, "weekly_change_rate_kg"),
                                               Str(" kg/week") >>),
                    P("Trend", << TrendLabel(w) >>) >>) >>
    ELSE << >>

\* Entered whenever data.blood_pressure_analysis is truthy; its status is not
\* read.
BloodPressureAnalysisSection(data) ==
    LET b == Get(data, "blood_pressure_analysis") IN
    IF Truthy(b)
    THEN << Card("Blood Pressure Analysis",
                 << P("Average", << Get(b, "average_systolic"), Str("/"),
                                    Get(b, "average_diastolic"), Str(" mmHg") >>),
                    P("Category", << CategoryLabel(Get(b, "category")) >>) >>) >>
    ELSE << >>

MealLine(entry) == [tag |-> "li", values |-> << entry[1], Str(": "), entry[2] >>]

NutritionSection(data) ==
    LET n == Get(data, "nutrition_summary") IN
    IF Truthy(n) /\ Get(n, "status") = Success
    THEN << Card("Nutrition Summary",
                 << P("Average Daily Calories", << Get(n, "average_daily_calories") >>),
                    P("Days Tracked", << Get(n, "days_tracked") >>) >>
                 \o (IF Truthy(Get(n, "meal_frequency"))
                     THEN << P("Meal Frequency", << >>),
                             Ul([i \in 1..Len(Get(n, "meal_frequency").arr) |-> MealLine(Get(n, "meal_frequency").arr[i])]) >>
                     ELSE << >>)) >>
    ELSE << >>

SymptomLine(entry) ==
    [tag |-> "li", values |-> << entry[1], Str(": "), entry[2], Str(" occurrences") >>]

PatternLine(pattern) ==
    [tag |-> "li", values |-> << Get(pattern, "symptom"), Str(" tends to occur in the "),
                                 Get(pattern, "time") >>]

NonEmptyArr(v) == Truthy(v) /\ IsArr(v) /\ Len(v.arr) > 0

\* SymptomPatternsSection entered only when the nutrition summary succeeded too
SymptomPatternsSection_NeedsNutrition(data) ==
    LET y == Get(data, "symptom_patterns") IN
    IF Truthy(y) /\ Get(y, "status") = Success
       /\ Get(Get(data, "nutrition_summary"), "status") = Success
    THEN << Card("Symptom Patterns",
                 (IF NonEmptyArr(Get(y, "most_frequent_symptoms"))
                  THEN << P("Most Frequent Symptoms", << >>),
                          Ul([i \in 1..Len(Get(y, "most_frequent_symptoms").arr) |-> SymptomLine(Get(y, "most_frequent_symptoms").arr[i])]) >>
                  ELSE << >>)
                 \o (IF NonEmptyArr(Get(y, "time_patterns"))
                     THEN << P("Time Patterns", << >>),
                             Ul([i \in 1..Len(Get(y, "time_patterns").arr) |-> PatternLine(Get(y, "time_patterns").arr[i])]) >>
                     ELSE << >>)) >>
    ELSE << >>

SymptomPatternsSection(data) ==
    LET y == Get(data, "symptom_patterns") IN
    IF Truthy(y) /\ Get(y, "status") = Success
    THEN << Card("Symptom Patterns",
                 (IF NonEmptyArr(Get(y, "most_frequent_symptoms"))
                  THEN << P("Most Frequent Symptoms", << >>),
                          Ul([i \in 1..Len(Get(y, "most_frequent_symptoms").arr) |-> SymptomLine(Get(y, "most_frequent_symptoms").arr[i])]) >>
                  ELSE << >>)
                 \o (IF NonEmptyArr(Get(y, "time_patterns"))
                     THEN << P("Time Patterns", << >>),
                             Ul([i \in 1..Len(Get(y, "time_patterns").arr) |-> PatternLine(Get(y, "time_patterns").arr[i])]) >>
                     ELSE << >>)) >>
    ELSE << >>

\* RecommendationsSection entered whenever data.recommendations is truthy
RecommendationsSection_AnyList(data) ==
    IF Truthy(Get(data, "recommendations"))
    THEN << Card("Recommendations", << Ul(Get(data, "recommendations").arr) >>) >>
    ELSE << >>

RecommendationsSection(data) ==
    IF NonEmptyArr(Get(data, "recommendations"))
    THEN << Card("Recommendations", << Ul(Get(data, "recommendations").arr) >>) >>
    ELSE << >>

\* A TypeError is raised while the markup is built, before the container is
\* written: a member of undefined is read.
renderHealthReportThrows(data) ==
    /\ Get(data, "status") = Success
    /\ \/ IsUndefined(Get(data, "user_info"))
       \/ IsUndefined(Get(data, "summary"))
       \/ ~IsArr(Get(Get(data, "summary"), "metrics_tracked"))
       \/ /\ Truthy(Get(data, "weight_analysis"))
          /\ ~IsStr(Get(Get(data, "weight_analysis"), "trend"))

renderHealthReport(data) ==
    IF Get(data, "status") = Success
    THEN [ kind |-> "health-report",
           sections |-> << UserInfoSection(data), SummarySection(data) >>
                        \o WeightAnalysisSection(data)
                        \o BloodPressureAnalysisSection(data)
                        \o NutritionSection(data)
                        \o SymptomPatternsSection(data)
                        \o RecommendationsSection(data) ]
    ELSE AlertInfo(Get(data, "message"))

\* ------------------------------------------------------------------------
\* Numbers read from form fields.  A field's text is a sequence of lexemes:
\* single characters, and the word "Infinity" as one lexeme.
\* ------------------------------------------------------------------------

NaN == [nan |-> TRUE]

\* sign is 1 or -1
Infinity(sign) == [inf |-> sign]

IsNaN(v) == "nan" \in DOMAIN v

DigitValue(c) ==
    CASE c = "0" -> 0 [] c = "1" -> 1 [] c = "2" -> 2 [] c = "3" -> 3
      [] c = "4" -> 4 [] c = "5" -> 5 [] c = "6" -> 6 [] c = "7" -> 7
      [] c = "8" -> 8 [] c = "9" -> 9

IsDigit(c) == c \in {"0", "1", "2", "3", "4", "5", "6", "7", "8", "9"}

RECURSIVE TrimStart(_)
TrimStart(t) == IF t # << >> /\ Head(t) = " " THEN TrimStart(Tail(t)) ELSE t

\* Length of the longest prefix of t made of digits
RECURSIVE DigitRun(_)
DigitRun(t) == IF t # << >> /\ IsDigit(Head(t)) THEN 1 + DigitRun(Tail(t)) ELSE 0

\* Value of a sequence of digits, most significant first
RECURSIVE DecimalValue(_)
DecimalValue(t) ==
    IF t = << >> THEN 0
    ELSE 10 * DecimalValue(SubSeq(t, 1, Len(t) - 1)) + DigitValue(t[Len(t)])

\* parseFloat: leading blanks are skipped, then the longest prefix that is a
\* signed decimal literal or a signed Infinity is converted and the rest of
\* the text is ignored; NaN when there is no such prefix.  (Fractions and
\* exponents are left out: the model's numbers are integers.)
parseFloat(text) ==
    LET u == TrimStart(text)
        signed == u # << >> /\ Head(u) \in {"-", "+"}
        sign == IF u # << >> /\ Head(u) = "-" THEN -1 ELSE 1
        v == IF signed THEN Tail(u) ELSE u
    IN  IF v # << >> /\ Head(v) = "Infinity" THEN Infinity(sign)
        ELSE IF DigitRun(v) = 0 THEN NaN
        ELSE Num(sign * DecimalValue(SubSeq(v, 1, DigitRun(v))))

\* Texts typed into the goal form's target field
Texts ==
    { << >>, << "x" >>, << "7" >>, << "7", "x" >>, << " ", "7" >>,
      << "Infinity" >>, << "-", "7" >> }

\* ------------------------------------------------------------------------
\* The progress tracker
\* ------------------------------------------------------------------------

\* config.defaultDays / state.currentDays of a fresh tracker
DefaultDays == 30

\* Values of the options of a .time-range-selector
DayOptions == {7, DefaultDays, 90}

UserIds == {"u1"}

\* Values of the options of #goal-type-selector
GoalTypes == {"weight", "blood_sugar", "blood_pressure"}

\* The .progress-tab elements
TabIds == {"weight-tab", "blood-pressure-tab", "goals-tab", "report-tab"}

\* tabId.replace('-tab', '-content')
ContentOf(tabId) ==
    CASE tabId = "weight-tab" -> "weight-content"
      [] tabId = "blood-pressure-tab" -> "blood-pressure-content"
      [] tabId = "goals-tab" -> "goals-content"
      [] tabId = "report-tab" -> "report-content"

ContentIds == { ContentOf(t) : t \in TabIds }

\* The surfaces the tracker writes
SurfaceIds ==
    { "weight-chart-container", "weight-insights",
      "bp-chart-container", "bp-insights",
      "goal-progress-container", "health-report-container" }

\* The members of the ProgressTracker object literal
Methods ==
    { "init", "setupEventListeners", "loadWeightTrend", "renderWeightChart",
      "renderWeightInsights", "loadBloodPressureTrend", "renderBloodPressureChart",
      "renderBloodPressureInsights", "trackGoalProgress", "renderGoalProgress",
      "loadHealthReport", "renderHealthReport", "logProgress" }

\* The responses the analytics service may give to each kind of request
WeightResponses == {WeightOk, WeightFail}

BpResponses == {BpOk, BpFail}

GoalResponses == {GoalOk(50), GoalOk(150), GoalOk(-20), GoalFail}

ReportResponses == {ReportFull, ReportWeightFailed, ReportBpFailed, ReportFail}

ResponsesTo(kind) ==
    CASE kind = "weight-trend" -> WeightResponses
      [] kind = "blood-pressure-trend" -> BpResponses
      [] kind = "goal-progress" -> GoalResponses
      [] kind = "health-report" -> ReportResponses

VARIABLES
    userId,          \* state.userId
    listening,       \* setupEventListeners has registered the handlers
    currentDays,     \* state.currentDays
    charts,          \* the keys of state.charts
    activeTabs,      \* the .progress-tab elements with class active
    activeContents,  \* the .tab-content elements with class active
    dom,             \* innerHTML of each surface
    pending,         \* the fetches in flight, in the order they were issued
    issued,          \* how many fetches the tracker has started
    lastEvent        \* the handler that ran last and what it did

ptVars == << userId, listening, currentDays, charts, activeTabs, activeContents,
             dom, pending, issued, lastEvent >>

VARIABLES
    hcUserId,        \* STATE.userId of the consultation module
    hcListening,     \* the category selector has its change listener
    consultation,    \* STATE.consultation
    correlations,    \* STATE.correlations
    healthTips,      \* STATE.healthTips, by category
    hcHidden,        \* the elements with class d-none
    hcContent,       \* innerHTML / textContent of the module's elements
    hcPending,       \* the module's fetches in flight
    hcIssued,        \* how many fetches the module has started
    fetchedOk,       \* the categories whose tips a fetch has delivered
    hcEvent          \* the function that ran last and what it did

hcVars == << hcUserId, hcListening, consultation, correlations, healthTips,
             hcHidden, hcContent, hcPending, hcIssued, fetchedOk, hcEvent >>

VARIABLE
    call             \* the renderer or helper called last on its own: its name,
                     \* its argument and what it produced

VARIABLES
    users,           \* global.users of the API server
    users4001,       \* global.users of the port-4001 server
    files,           \* the names of the files in BASE_DIR
    reply            \* the response the server sent last, with its request

srvVars == << users, users4001, files, reply >>

VARIABLES
    tokenItem,       \* localStorage item healthsync_auth_token
    userItem,        \* localStorage item healthsync_user_data
    isAuthenticated, \* auth.isAuthenticated
    currentUser,     \* auth.currentUser
    authEvent        \* the method of auth called last and what it returned

clVars == << tokenItem, userItem, isAuthenticated, currentUser, authEvent >>

VARIABLES
    spUserId,        \* SymptomPrediction.userId
    spListening,     \* the refresh buttons have their click listeners
    spDom,           \* innerHTML of the elements the module writes
    spPending,       \* the module's fetches in flight
    spIssued,        \* how many fetches the module has started
    spEvent          \* the function of the module that ran last

spVars == << spUserId, spListening, spDom, spPending, spIssued, spEvent >>

vars == << ptVars, hcVars, call, srvVars, clVars, spVars >>

\* ---- the four loads: the request each one sends ----

loadWeightTrend(user, days) ==
    [kind |-> "weight-trend", user |-> user, days |-> days]

loadBloodPressureTrend(user, days) ==
    [kind |-> "blood-pressure-trend", user |-> user, days |-> days]

trackGoalProgress(user, goalType, targetValue) ==
    [kind |-> "goal-progress", user |-> user,
     goal_type |-> goalType, target_value |-> targetValue]

loadHealthReport(user) ==
    [kind |-> "health-report", user |-> user]

\* ---- what each load does with the outcome of its fetch ----
\* Each operator takes the surfaces dm and the chart keys ch and gives the
\* new ones; caught tells that the promise chain's catch handler ran.

Effect(dm, ch, caught) == [dom |-> dm, charts |-> ch, caught |-> caught]

\* WeightTrendCatch writing its message to #weight-insights as well
WeightTrendCatch_AlsoInsights(dm, ch) ==
    Effect([dm EXCEPT !["weight-chart-container"] =
                AlertDanger("Error loading weight data. Please try again later."),
                      !["weight-insights"] =
                AlertDanger("Error loading weight data. Please try again later.")],
           ch, TRUE)

WeightTrendCatch(dm, ch) ==
    Effect([dm EXCEPT !["weight-chart-container"] =
                AlertDanger("Error loading weight data. Please try again later.")],
           ch, TRUE)

\* WeightTrendThen without the line that empties #weight-insights
WeightTrendThen_KeepsInsights(data, dm, ch) ==
    IF Get(data, "status") = Success
    THEN Effect([dm EXCEPT !["weight-chart-container"] = renderWeightChart(data),
                           !["weight-insights"] = renderWeightInsights(data)],
                ch \cup {"weightChart"}, FALSE)
    ELSE Effect([dm EXCEPT !["weight-chart-container"] = AlertInfo(Get(data, "message"))],
                ch, FALSE)

WeightTrendThen(data, dm, ch) ==
    IF Get(data, "status") = Success
    THEN LET drawn == [dm EXCEPT !["weight-chart-container"] = renderWeightChart(data)]
             made == ch \cup {"weightChart"}
         IN  IF renderWeightInsightsThrows(data)
             THEN WeightTrendCatch(drawn, made)
             ELSE Effect([drawn EXCEPT !["weight-insights"] = renderWeightInsights(data)],
                         made, FALSE)
    ELSE Effect([dm EXCEPT !["weight-chart-container"] = AlertInfo(Get(data, "message")),
                           !["weight-insights"] = Empty],
                ch, FALSE)

BloodPressureTrendCatch(dm, ch) ==
    Effect([dm EXCEPT !["bp-chart-container"] =
                AlertDanger("Error loading blood pressure data. Please try again later.")],
           ch, TRUE)

BloodPressureTrendThen(data, dm, ch) ==
    IF Get(data, "status") = Success
    THEN Effect([dm EXCEPT !["bp-chart-container"] = renderBloodPressureChart(data),
                           !["bp-insights"] = renderBloodPressureInsights(data)],
                ch \cup {"bpChart"}, FALSE)
    ELSE Effect([dm EXCEPT !["bp-chart-container"] = AlertInfo(Get(data, "message")),
                           !["bp-insights"] = Empty],
                ch, FALSE)

GoalProgressCatch(dm, ch) ==
    Effect([dm EXCEPT !["goal-progress-container"] =
                AlertDanger("Error tracking goal progress. Please try again later.")],
           ch, TRUE)

GoalProgressThen(data, dm, ch) ==
    Effect([dm EXCEPT !["goal-progress-container"] = renderGoalProgress(data)], ch, FALSE)

HealthReportCatch(dm, ch) ==
    Effect([dm EXCEPT !["health-report-container"] =
                AlertDanger("Error loading health report. Please try again later.")],
           ch, TRUE)

HealthReportThen(data, dm, ch) ==
    IF renderHealthReportThrows(data)
    THEN HealthReportCatch(dm, ch)
    ELSE Effect([dm EXCEPT !["health-report-container"] = renderHealthReport(data)],
                ch, FALSE)

\* The fetch was rejected, or its body was no JSON.
OnRejected(kind, dm, ch) ==
    CASE kind = "weight-trend" -> WeightTrendCatch(dm, ch)
      [] kind = "blood-pressure-trend" -> BloodPressureTrendCatch(dm, ch)
      [] kind = "goal-progress" -> GoalProgressCatch(dm, ch)
      [] kind = "health-report" -> HealthReportCatch(dm, ch)

\* The fetch gave the JSON object data.
OnData(kind, data, dm, ch) ==
    CASE kind = "weight-trend" -> WeightTrendThen(data, dm, ch)
      [] kind = "blood-pressure-trend" -> BloodPressureTrendThen(data, dm, ch)
      [] kind = "goal-progress" -> GoalProgressThen(data, dm, ch)
      [] kind = "health-report" -> HealthReportThen(data, dm, ch)

\* The surfaces a load of the given kind writes
SurfacesOf(kind) ==
    CASE kind = "weight-trend" -> {"weight-chart-container", "weight-insights"}
      [] kind = "blood-pressure-trend" -> {"bp-chart-container", "bp-insights"}
      [] kind = "goal-progress" -> {"goal-progress-container"}
      [] kind = "health-report" -> {"health-report-container"}

\* ---- the tab click handler ----

\* The method the handler calls for the clicked tab
TabLoadMethod(tabId) ==
    CASE tabId = "weight-tab" -> "loadWeightTrend"
      [] tabId = "blood-pressure-tab" -> "loadBloodPressureTrend"
      [] tabId = "goals-tab" -> "loadGoalProgress"
      [] tabId = "report-tab" -> "loadHealthReport"

\* Calling a member the object does not have raises a TypeError.
TabClickThrows(tabId) == TabLoadMethod(tabId) \notin Methods

\* TabClickLoads with the blood-pressure branch calling the weight load
TabClickLoads_WrongLoad(tabId, user, days) ==
    IF TabClickThrows(tabId) THEN << >>
    ELSE CASE tabId = "weight-tab" -> << loadWeightTrend(user, days) >>
           [] tabId = "blood-pressure-tab" -> << loadWeightTrend(user, days) >>
           [] tabId = "report-tab" -> << loadHealthReport(user) >>
           [] OTHER -> << >>

\* The requests the handler sends, in order
TabClickLoads(tabId, user, days) ==
    IF TabClickThrows(tabId) THEN << >>
    ELSE CASE tabId = "weight-tab" -> << loadWeightTrend(user, days) >>
           [] tabId = "blood-pressure-tab" -> << loadBloodPressureTrend(user, days) >>
           [] tabId = "report-tab" -> << loadHealthReport(user) >>
           [] OTHER -> << >>

\* TabsAfterClick without the removal of active from the other tabs
TabsAfterClick_NoRemove(tabs, tabId) == tabs \cup {tabId}

\* classList of the tabs after the handler removed active from all and added
\* it to the clicked one
TabsAfterClick(tabs, tabId) == {tabId}

ContentsAfterClick(contents, tabId) == {ContentOf(tabId)}

\* ---- the time-range change handler ----

\* document.querySelector('.progress-tab.active').id : the first active tab
\* in document order
TabOrder == << "weight-tab", "blood-pressure-tab", "goals-tab", "report-tab" >>

FirstActiveTab(tabs) ==
    TabOrder[CHOOSE i \in 1..Len(TabOrder) :
                /\ TabOrder[i] \in tabs
                /\ \A j \in 1..(i - 1) : TabOrder[j] \notin tabs]

\* No tab is active: .id is read from null.
TimeRangeThrows(tabs) == tabs = {}

\* TimeRangeLoads comparing the tab id with the metric names
TimeRangeLoads_MetricNames(tabs, user, days) ==
    IF TimeRangeThrows(tabs) THEN << >>
    ELSE CASE FirstActiveTab(tabs) = "weight" -> << loadWeightTrend(user, days) >>
           [] FirstActiveTab(tabs) = "blood-pressure" ->
                << loadBloodPressureTrend(user, days) >>
           [] OTHER -> << >>

\* TimeRangeLoads reloading the report for the remaining tabs
TimeRangeLoads_AnyTab(tabs, user, days) ==
    IF TimeRangeThrows(tabs) THEN << >>
    ELSE CASE FirstActiveTab(tabs) = "weight-tab" -> << loadWeightTrend(user, days) >>
           [] FirstActiveTab(tabs) = "blood-pressure-tab" ->
                << loadBloodPressureTrend(user, days) >>
           [] OTHER -> << loadHealthReport(user) >>

TimeRangeLoads(tabs, user, days) ==
    IF TimeRangeThrows(tabs) THEN << >>
    ELSE CASE FirstActiveTab(tabs) = "weight-tab" -> << loadWeightTrend(user, days) >>
           [] FirstActiveTab(tabs) = "blood-pressure-tab" ->
                << loadBloodPressureTrend(user, days) >>
           [] OTHER -> << >>

\* ---- the goal form's submit handler ----

\* isNaN(targetValue): the submission is rejected with an alert
GoalSubmitRejected(targetValue) == IsNaN(targetValue)

GoalSubmitLoads(user, goalType, text) ==
    IF GoalSubmitRejected(parseFloat(text)) THEN << >>
    ELSE << trackGoalProgress(user, goalType, parseFloat(text)) >>

\* ------------------------------------------------------------------------
\* The tracker's state machine
\* ------------------------------------------------------------------------

\* RemoveAt discarding, with the fetch that settled, the fetches issued before it
RemoveAt_DropsOlder(q, i) == SubSeq(q, i + 1, Len(q))

\* The fetches still in flight once the i-th has settled
RemoveAt(q, i) == SubSeq(q, 1, i - 1) \o SubSeq(q, i + 1, Len(q))

PTInitState ==
    /\ userId = "null"
    /\ listening = FALSE
    /\ currentDays = DefaultDays
    /\ charts = {}
    /\ activeTabs = {}
    /\ activeContents = {}
    /\ dom = [s \in SurfaceIds |-> Empty]
    /\ pending = << >>
    /\ issued = 0
    /\ lastEvent = [op |-> "none"]

\* ProgressTracker.init(userId)
PTInit(user) ==
    /\ ~listening
    /\ issued < MaxRequests
    /\ userId' = user
    /\ listening' = TRUE
    /\ pending' = Append(pending, loadWeightTrend(user, currentDays))
    /\ issued' = issued + 1
    /\ activeTabs' = activeTabs \cup {"weight-tab"}
    /\ activeContents' = activeContents \cup {"weight-content"}
    /\ lastEvent' = [op |-> "init"]
    /\ UNCHANGED << currentDays, charts, dom >>
    /\ UNCHANGED << hcVars, call, srvVars, clVars, spVars >>

\* click on a .progress-tab
TabClick(tabId) ==
    /\ listening
    /\ issued + Len(TabClickLoads(tabId, userId, currentDays)) <= MaxRequests
    /\ activeTabs' = TabsAfterClick(activeTabs, tabId)
    /\ activeContents' = ContentsAfterClick(activeContents, tabId)
    /\ pending' = pending \o TabClickLoads(tabId, userId, currentDays)
    /\ issued' = issued + Len(TabClickLoads(tabId, userId, currentDays))
    /\ lastEvent' = [op |-> "tab-click", tab |-> tabId, from |-> activeTabs,
                     threw |-> TabClickThrows(tabId)]
    /\ UNCHANGED << userId, listening, currentDays, charts, dom >>
    /\ UNCHANGED << hcVars, call, srvVars, clVars, spVars >>

\* change of a .time-range-selector to the option with value days
TimeRangeChange(days) ==
    /\ listening
    /\ issued + Len(TimeRangeLoads(activeTabs, userId, days)) <= MaxRequests
    /\ currentDays' = days
    /\ pending' = pending \o TimeRangeLoads(activeTabs, userId, days)
    /\ issued' = issued + Len(TimeRangeLoads(activeTabs, userId, days))
    /\ lastEvent' = [op |-> "time-range", days |-> days,
                     threw |-> TimeRangeThrows(activeTabs)]
    /\ UNCHANGED << userId, listening, charts, activeTabs, activeContents, dom >>
    /\ UNCHANGED << hcVars, call, srvVars, clVars, spVars >>

\* submit of #goal-tracking-form with the selector at goalType and the
\* target field holding text
GoalSubmit(goalType, text) ==
    /\ listening
    /\ issued + Len(GoalSubmitLoads(userId, goalType, text)) <= MaxRequests
    /\ pending' = pending \o GoalSubmitLoads(userId, goalType, text)
    /\ issued' = issued + Len(GoalSubmitLoads(userId, goalType, text))
    /\ lastEvent' = [op |-> "goal-submit", goal_type |-> goalType,
                     target |-> parseFloat(text),
                     alerted |-> GoalSubmitRejected(parseFloat(text))]
    /\ UNCHANGED << userId, listening, currentDays, charts, activeTabs,
                    activeContents, dom >>
    /\ UNCHANGED << hcVars, call, srvVars, clVars, spVars >>

\* What the surfaces of a load show, by kind of content
Showing(dm, kind) == { dm[s].kind : s \in SurfacesOf(kind) }

\* The fetch pending[i] settles with a JSON body.
Respond(i, data) ==
    /\ i \in 1..Len(pending)
    /\ data \in ResponsesTo(pending[i].kind)
    /\ LET eff == OnData(pending[i].kind, data, dom, charts) IN
        /\ dom' = eff.dom
        /\ charts' = eff.charts
        /\ lastEvent' = [op |-> "response", kind |-> pending[i].kind, rejected |-> FALSE,
                         data |-> data, caught |-> eff.caught,
                         before |-> Showing(dom, pending[i].kind),
                         request |-> pending[i]]
    /\ pending' = RemoveAt(pending, i)
    /\ UNCHANGED << issued, userId, listening, currentDays, activeTabs, activeContents >>
    /\ UNCHANGED << hcVars, call, srvVars, clVars, spVars >>

\* The fetch pending[i] is rejected (transport failure, or a body that is no
\* JSON).
Reject(i) ==
    /\ i \in 1..Len(pending)
    /\ LET eff == OnRejected(pending[i].kind, dom, charts) IN
        /\ dom' = eff.dom
        /\ charts' = eff.charts
        /\ lastEvent' = [op |-> "response", kind |-> pending[i].kind, rejected |-> TRUE,
                         data |-> Undefined, caught |-> eff.caught,
                         before |-> Showing(dom, pending[i].kind),
                         request |-> pending[i]]
    /\ pending' = RemoveAt(pending, i)
    /\ UNCHANGED << issued, userId, listening, currentDays, activeTabs, activeContents >>
    /\ UNCHANGED << hcVars, call, srvVars, clVars, spVars >>

AllResponses == WeightResponses \cup BpResponses \cup GoalResponses \cup ReportResponses

PTNext ==
    \/ \E user \in UserIds : PTInit(user)
    \/ \E tabId \in TabIds : TabClick(tabId)
    \/ \E days \in DayOptions : TimeRangeChange(days)
    \/ \E goalType \in GoalTypes, text \in Texts : GoalSubmit(goalType, text)
    \/ \E i \in 1..MaxRequests, data \in AllResponses : Respond(i, data)
    \/ \E i \in 1..MaxRequests : Reject(i)


\* ------------------------------------------------------------------------
\* The health-consultation module
\* ------------------------------------------------------------------------

\* Values of the options of #health-tip-category
TipCategories == {"nutrition", "exercise"}

\* sessionStorage userId || URL parameter userId, when the page is opened
HcUserIds == {"null", "u1"}

Tip(title, importance) ==
    [title |-> Str(title), description |-> Str("..."), importance |-> Str(importance)]

\* Bodies of a successful health-tips response
TipsResponses ==
    { Arr(<< >>),
      Arr(<< Tip("Eat more fibre", "high") >>),
      Arr(<< Tip("Walk daily", "low"), Tip("Stretch", "medium") >>) }

\* Sections are given as plain text; the object forms are laid out by
\* renderGeneralHealthHtml and its siblings.
ConsultationResponses ==
    { [ general_health_status |-> Str("Good"),
        recommendations |-> Arr(<< Str("Sleep eight hours") >>) ] }

Correlation(food, symptom, confidence, pct, n) ==
    [ food |-> Str(food), symptom |-> Str(symptom), confidence |-> Str(confidence),
      correlation_percentage |-> Num(pct), occurrences |-> Num(n) ]

CorrelationsResponses ==
    { [ correlations |-> Arr(<< >>) ],
      [ correlations |-> Arr(<< Correlation("milk", "bloating", "high", 80, 4) >>) ] }

HcResponsesTo(kind) ==
    CASE kind = "consultation" -> ConsultationResponses
      [] kind = "correlations" -> CorrelationsResponses
      [] kind = "health-tips" -> TipsResponses

HcElementIds ==
    { "consultation-loading", "consultation-content", "consultation-error",
      "correlations-loading", "correlations-content", "correlations-error",
      "health-tips-content" }

Spinner == [kind |-> "loading", text |-> "Loading health tips..."]

TextContent(t) == [kind |-> "text", text |-> t]

\* ---- renderHealthTips ----

importanceClass(importance) ==
    IF ~IsStr(importance) THEN "text-muted"
    ELSE CASE importance.str = "high" -> "text-danger"
           [] importance.str = "medium" -> "text-warning"
           [] importance.str = "low" -> "text-muted"
           [] OTHER -> "text-muted"

AccordionItem(tip, index) ==
    [ tag |-> "accordion-item", index |-> index,
      class |-> importanceClass(Get(tip, "importance")),
      starred |-> Get(tip, "importance") = Str("high"),
      title |-> Get(tip, "title"),
      description |-> Get(tip, "description"),
      shown |-> index = 0 ]

\* What renderHealthTips(tips) leaves in #health-tips-content, given what
\* the element held
renderHealthTips(tips, held) ==
    IF ~Truthy(tips) THEN held
    ELSE IF Len(tips.arr) = 0
    THEN [kind |-> "no-tips", text |-> "No health tips available for this category."]
    ELSE [kind |-> "accordion",
          items |-> [i \in 1..Len(tips.arr) |-> AccordionItem(tips.arr[i], i - 1)]]

\* ---- renderConsultation / renderCorrelations ----

\* createSectionHtml(title, data) for data given as text
createSectionHtml(title, data) ==
    IF ~Truthy(data) THEN << >>
    ELSE << [tag |-> "section", title |-> title, body |-> << P("", << data >>) >>] >>

renderConsultation(data) ==
    LET sections ==
            (IF Truthy(Get(data, "general_health_status"))
             THEN createSectionHtml("General Health Status",
                                    Get(data, "general_health_status")) ELSE << >>)
         \o (IF Truthy(Get(data, "vital_signs_assessment"))
             THEN createSectionHtml("Vital Signs Assessment",
                                    Get(data, "vital_signs_assessment")) ELSE << >>)
         \o (IF Truthy(Get(data, "symptom_analysis"))
             THEN createSectionHtml("Symptom Analysis",
                                    Get(data, "symptom_analysis")) ELSE << >>)
         \o (IF Truthy(Get(data, "nutrition_assessment"))
             THEN createSectionHtml("Nutrition Assessment",
                                    Get(data, "nutrition_assessment")) ELSE << >>)
         \o (IF NonEmptyArr(Get(data, "recommendations"))
             THEN << [tag |-> "section", title |-> "Personalized Recommendations",
                      body |-> << Ul(Get(data, "recommendations").arr) >>] >>
             ELSE << >>)
    IN  IF sections = << >>
        THEN [kind |-> "no-consultation", text |-> "No consultation data available."]
        ELSE [kind |-> "consultation", sections |-> sections]

confidenceClass(confidence) ==
    IF ~IsStr(confidence) THEN "text-muted"
    ELSE CASE confidence.str = "low" -> "text-muted"
           [] confidence.str = "medium" -> "text-warning"
           [] confidence.str = "high" -> "text-danger"
           [] OTHER -> "text-muted"

CorrelationRow(corr) ==
    [ tag |-> "tr",
      food |-> Get(corr, "food"),
      symptom |-> Get(corr, "symptom"),
      class |-> confidenceClass(Get(corr, "confidence")),
      confidence |-> Get(corr, "confidence"),
      correlation |-> << Get(corr, "correlation_percentage"), Str("% ("),
                         Get(corr, "occurrences"), Str(" occurrences)") >> ]

\* renderCorrelations laying the rows out last entry first
renderCorrelations_Reversed(data) ==
    IF NonEmptyArr(Get(data, "correlations"))
    THEN [kind |-> "table",
          rows |-> [i \in 1..Len(Get(data, "correlations").arr) |->
                       CorrelationRow(Get(data, "correlations").arr[
                           Len(Get(data, "correlations").arr) + 1 - i])],
          note |-> "Correlation does not necessarily imply causation."]
    ELSE [kind |-> "no-correlations",
          text |-> "No significant food-symptom correlations found."]

renderCorrelations(data) ==
    IF NonEmptyArr(Get(data, "correlations"))
    THEN [kind |-> "table",
          rows |-> [i \in 1..Len(Get(data, "correlations").arr) |->
                       CorrelationRow(Get(data, "correlations").arr[i])],
          note |-> "Correlation does not necessarily imply causation."]
    ELSE [kind |-> "no-correlations",
          text |-> "No significant food-symptom correlations found."]

\* ---- the loads ----

HcRequest(kind, key) == [kind |-> kind, key |-> key]

\* TipsCached taking an empty list of tips for a missing entry
TipsCached_NonEmpty(cache, category) == NonEmptyArr(cache[category])

\* STATE.healthTips[category] is truthy: the tips are served from the cache.
TipsCached(cache, category) == Truthy(cache[category])

\* The requests loadHealthTips(category) sends
HealthTipsLoads(cache, category) ==
    IF TipsCached(cache, category) THEN << >>
    ELSE << HcRequest("health-tips", category) >>

\* #health-tips-content when loadHealthTips(category) reaches its await or
\* returns
HealthTipsShown(cache, category, held) ==
    IF TipsCached(cache, category)
    THEN renderHealthTips(cache[category], held)
    ELSE Spinner

\* STATE.healthTips after a successful fetch of category gave data
TipsStored(cache, category, data) == [cache EXCEPT ![category] = data]

\* STATE.healthTips after a failed fetch of category
TipsAfterFailure(cache, category) == cache

HCInitState ==
    /\ hcUserId = "null"
    /\ hcListening = FALSE
    /\ consultation = Undefined
    /\ correlations = Undefined
    /\ healthTips = [c \in TipCategories |-> Undefined]
    /\ hcHidden = HcElementIds \ {"health-tips-content"}
    /\ hcContent = [e \in HcElementIds |-> Empty]
    /\ hcPending = << >>
    /\ hcIssued = 0
    /\ fetchedOk = {}
    /\ hcEvent = [op |-> "none"]

\* initHealthConsultation, with user the id found in the session storage or
\* the URL ("null" when there is none)
initHealthConsultation(user) ==
    /\ hcEvent.op = "none"
    /\ hcUserId' = user
    /\ IF user = "null"
       THEN /\ hcContent' = [hcContent EXCEPT
                  !["consultation-error"] =
                      TextContent("User ID not found. Please log in again."),
                  !["correlations-error"] =
                      TextContent("User ID not found. Please log in again.")]
            /\ hcHidden' = hcHidden \ {"consultation-error", "correlations-error"}
            /\ hcEvent' = [op |-> "init", started |-> FALSE]
            /\ UNCHANGED << hcListening, hcPending, hcIssued >>
       ELSE /\ hcIssued + 3 <= MaxHcRequests
            /\ hcListening' = TRUE
            /\ hcHidden' = (hcHidden \ {"consultation-loading", "correlations-loading"})
                           \cup {"consultation-content", "consultation-error",
                                 "correlations-content", "correlations-error"}
            /\ hcContent' = [hcContent EXCEPT !["health-tips-content"] =
                                 HealthTipsShown(healthTips, "nutrition", @)]
            /\ hcPending' = hcPending
                            \o << HcRequest("consultation", user),
                                  HcRequest("correlations", user) >>
                            \o HealthTipsLoads(healthTips, "nutrition")
            /\ hcIssued' = hcIssued + 2 + Len(HealthTipsLoads(healthTips, "nutrition"))
            /\ hcEvent' = [op |-> "init", started |-> TRUE]
    /\ UNCHANGED << consultation, correlations, healthTips, fetchedOk >>
    /\ UNCHANGED << ptVars, call, srvVars, clVars, spVars >>

\* change of #health-tip-category to category: loadHealthTips(category)
SelectCategory(category) ==
    /\ hcListening
    /\ hcIssued + Len(HealthTipsLoads(healthTips, category)) <= MaxHcRequests
    /\ hcContent' = [hcContent EXCEPT !["health-tips-content"] =
                         HealthTipsShown(healthTips, category, @)]
    /\ hcPending' = hcPending \o HealthTipsLoads(healthTips, category)
    /\ hcIssued' = hcIssued + Len(HealthTipsLoads(healthTips, category))
    /\ hcEvent' = [op |-> "select", category |-> category,
                   cached |-> TipsCached(healthTips, category),
                   fetched |-> Len(HealthTipsLoads(healthTips, category))]
    /\ UNCHANGED << hcUserId, hcListening, consultation, correlations, healthTips,
                    hcHidden, fetchedOk >>
    /\ UNCHANGED << ptVars, call, srvVars, clVars, spVars >>

\* The fetch hcPending[i] gives an ok response with the JSON body data.
HcRespond(i, data) ==
    /\ i \in 1..Len(hcPending)
    /\ data \in HcResponsesTo(hcPending[i].kind)
    /\ LET req == hcPending[i] IN
        /\ CASE req.kind = "consultation" ->
                  /\ consultation' = data
                  /\ hcContent' = [hcContent EXCEPT
                                     !["consultation-content"] = renderConsultation(data)]
                  /\ hcHidden' = hcHidden \ {"consultation-content", "consultation-loading"}
                  /\ UNCHANGED << correlations, healthTips >>
             [] req.kind = "correlations" ->
                  /\ correlations' = data
                  /\ hcContent' = [hcContent EXCEPT
                                     !["correlations-content"] = renderCorrelations(data)]
                  /\ hcHidden' = hcHidden \ {"correlations-content", "correlations-loading"}
                  /\ UNCHANGED << consultation, healthTips >>
             [] req.kind = "health-tips" ->
                  /\ healthTips' = TipsStored(healthTips, req.key, data)
                  /\ hcContent' = [hcContent EXCEPT !["health-tips-content"] =
                                       renderHealthTips(data, @)]
                  /\ UNCHANGED << consultation, correlations, hcHidden >>
        /\ hcEvent' = [op |-> "response", request |-> req, ok |-> TRUE,
                       had |-> IF req.kind = "health-tips"
                               THEN Truthy(healthTips[req.key]) ELSE FALSE]
    /\ fetchedOk' = IF hcPending[i].kind = "health-tips"
                    THEN fetchedOk \cup {hcPending[i].key} ELSE fetchedOk
    /\ hcPending' = RemoveAt(hcPending, i)
    /\ UNCHANGED << hcUserId, hcListening, hcIssued >>
    /\ UNCHANGED << ptVars, call, srvVars, clVars, spVars >>

\* The fetch hcPending[i] fails: it is rejected, its status is not ok, or
\* its body is no JSON.
HcFail(i) ==
    /\ i \in 1..Len(hcPending)
    /\ LET req == hcPending[i] IN
        /\ CASE req.kind = "consultation" ->
                  /\ hcContent' = [hcContent EXCEPT !["consultation-error"] = TextContent(
                        "Unable to load your health consultation. Please try again later.")]
                  /\ hcHidden' = (hcHidden \cup {"consultation-loading"})
                                 \ {"consultation-error"}
                  /\ UNCHANGED healthTips
             [] req.kind = "correlations" ->
                  /\ hcContent' = [hcContent EXCEPT !["correlations-error"] = TextContent(
                        "Unable to analyze food-symptom correlations. Please try again later.")]
                  /\ hcHidden' = (hcHidden \cup {"correlations-loading"})
                                 \ {"correlations-error"}
                  /\ UNCHANGED healthTips
             [] req.kind = "health-tips" ->
                  /\ healthTips' = TipsAfterFailure(healthTips, req.key)
                  /\ hcContent' = [hcContent EXCEPT !["health-tips-content"] =
                        AlertDanger("Unable to load health tips. Please try again later.")]
                  /\ UNCHANGED hcHidden
        /\ hcEvent' = [op |-> "response", request |-> req, ok |-> FALSE,
                       had |-> IF req.kind = "health-tips"
                               THEN Truthy(healthTips[req.key]) ELSE FALSE]
    /\ hcPending' = RemoveAt(hcPending, i)
    /\ UNCHANGED << hcUserId, hcListening, hcIssued, consultation, correlations,
                    fetchedOk >>
    /\ UNCHANGED << ptVars, call, srvVars, clVars, spVars >>

AllHcResponses == ConsultationResponses \cup CorrelationsResponses \cup TipsResponses

HCNext ==
    \/ \E user \in HcUserIds : initHealthConsultation(user)
    \/ \E category \in TipCategories : SelectCategory(category)
    \/ \E i \in 1..MaxHcRequests, data \in AllHcResponses : HcRespond(i, data)
    \/ \E i \in 1..MaxHcRequests : HcFail(i)

\* ------------------------------------------------------------------------
\* The symptom prediction module: renderAnalysis
\* ------------------------------------------------------------------------

H4(t) == [tag |-> "h4", text |-> t]

\* n.toFixed(digits)
ToFixed(v, digits) == [tag |-> "fixed", num |-> v.num, digits |-> digits]

\* Math.round((count / total) * 100), for count >= 0 and total > 0
RoundPercent(count, total) == (200 * count + total) \div (2 * total)

Days == << "Monday", "Tuesday", "Wednesday", "Thursday", "Friday", "Saturday", "Sunday" >>

DayData(severity, count) == [avg_severity |-> Num(severity), count |-> Num(count)]

\* The analysis of a user with four logs; ins and recs are its lists of
\* insights and of recommendations.  Object members are listed in the order
\* Object.entries gives them.
Analysis(ins, recs) ==
    [ total_logs |-> Num(4),
      symptom_frequency |-> << << "headache", Num(3) >>, << "nausea", Num(1) >> >>,
      severity_trend |-> [ trend |-> Str("increasing"), first_half_avg |-> Num(3),
                           second_half_avg |-> Num(5), change |-> Num(2) ],
      day_of_week_pattern |->
          [ Monday |-> DayData(8, 2), Tuesday |-> DayData(0, 0),
            Wednesday |-> DayData(5, 1), Thursday |-> DayData(0, 0),
            Friday |-> DayData(2, 1), Saturday |-> DayData(0, 0),
            Sunday |-> DayData(0, 0) ],
      insights |-> Arr(ins),
      recommendations |-> Arr(recs) ]

\* The body the service sends when there is nothing to analyse
AnalysisMessage == [ message |-> Str("Not enough data for pattern analysis") ]

InsightLists == { << >>, << Str("Headaches are most common on Mondays") >> }

RecommendationLists == { << >>, << Str("Consider tracking your sleep") >> }

Analyses ==
    { Analysis(ins, recs) : ins \in InsightLists, recs \in RecommendationLists }
    \cup {AnalysisMessage}

SymptomBar(entry, total) ==
    [ tag |-> "symptom-bar", name |-> entry[1],
      width |-> RoundPercent(entry[2].num, total.num), count |-> entry[2] ]

TrendIcon(trend) ==
    CASE trend = Str("increasing") -> "up"
      [] trend = Str("decreasing") -> "down"
      [] OTHER -> "right"

TrendClass(trend) ==
    CASE trend = Str("increasing") -> "trend-increasing"
      [] trend = Str("decreasing") -> "trend-decreasing"
      [] OTHER -> "trend-stable"

SeverityClass(severity) ==
    IF severity.num >= 7 THEN "severity-high"
    ELSE IF severity.num >= 4 THEN "severity-medium"
    ELSE "severity-low"

DayCard(day, dayData) ==
    [ tag |-> "day-card", name |-> day,
      class |-> SeverityClass(dayData.avg_severity),
      severity |-> ToFixed(dayData.avg_severity, 1),
      count |-> dayData.count ]

\* The items of a list, or the one placeholder item when the list is empty
ItemsOrPlaceholder(list, placeholder) ==
    IF Len(list.arr) = 0 THEN << Str(placeholder) >> ELSE list.arr

\* !analysis is followed by a read of analysis.message: a TypeError when there
\* is no analysis; so is a read of a list the analysis does not have.
renderAnalysisThrows(analysis) ==
    \/ ~Truthy(analysis)
    \/ /\ ~Truthy(Get(analysis, "message"))
       /\ \/ ~IsArr(Get(analysis, "insights"))
          \/ ~IsArr(Get(analysis, "recommendations"))

renderAnalysis(analysis) ==
    IF Truthy(Get(analysis, "message"))
    THEN AlertInfo(Get(analysis, "message"))
    ELSE LET trend == analysis.severity_trend IN
         [ kind |-> "analysis-summary",
           body |-> <<
             H4("Symptom Frequency"),
             [ tag |-> "symptom-chart",
               bars |-> [i \in 1..Len(analysis.symptom_frequency) |->
                           SymptomBar(analysis.symptom_frequency[i], analysis.total_logs)] ],
             H4("Severity Trend"),
             [ tag |-> "severity-trend", class |-> TrendClass(trend.trend),
               icon |-> TrendIcon(trend.trend), text |-> trend.trend,
               first_half_avg |-> ToFixed(trend.first_half_avg, 1),
               second_half_avg |-> ToFixed(trend.second_half_avg, 1),
               change |-> ToFixed(trend.change, 1) ],
             H4("Day of Week Pattern"),
             [ tag |-> "day-pattern",
               days |-> [i \in 1..Len(Days) |->
                           DayCard(Days[i], analysis.day_of_week_pattern[Days[i]])] ],
             H4("Insights"),
             Ul(ItemsOrPlaceholder(analysis.insights,
                                   "No significant patterns detected yet")),
             H4("Recommendations"),
             Ul(ItemsOrPlaceholder(analysis.recommendations,
                                   "Continue logging your symptoms regularly")) >> ]

\* ------------------------------------------------------------------------
\* The server's formatResponse.  A text is the sequence of its characters.
\* The texts handed to it here have no markdown marker: no "*", no "#", no
\* digit, so the replacements for bold text, bullets, headings and numbered
\* lists, which each need one of these characters, find nothing to replace,
\* in the text and in what the later replacements make of it.
\* ------------------------------------------------------------------------

NewLine == "\n"

\* [^\n<>]
IsBlockChar(c) == c \notin {NewLine, "<", ">"}

\* The end of the run of [^\n<>] characters that starts at i
RECURSIVE BlockEnd(_, _)
BlockEnd(t, i) ==
    IF i < Len(t) /\ IsBlockChar(t[i + 1]) THEN BlockEnd(t, i + 1) ELSE i

\* /([^\n<>][^\n<>]*?)\n\n/ matches at i: a run of [^\n<>] characters from i
\* with two line breaks right after it
ParagraphAt(t, i) ==
    /\ IsBlockChar(t[i])
    /\ BlockEnd(t, i) + 2 <= Len(t)
    /\ t[BlockEnd(t, i) + 1] = NewLine
    /\ t[BlockEnd(t, i) + 2] = NewLine

\* text.replace(/([^\n<>][^\n<>]*?)\n\n/g, '<p>$1</p>'), from position i on
RECURSIVE WrapParagraphs(_, _)
WrapParagraphs(t, i) ==
    IF i > Len(t) THEN << >>
    ELSE IF ParagraphAt(t, i)
         THEN << "<", "p", ">" >> \o SubSeq(t, i, BlockEnd(t, i))
              \o << "<", "/", "p", ">" >> \o WrapParagraphs(t, BlockEnd(t, i) + 3)
         ELSE << t[i] >> \o WrapParagraphs(t, i + 1)

\* text.replace(/\n\n/g, ''), from position i on
RECURSIVE DropDoubleBreaks(_, _)
DropDoubleBreaks(t, i) ==
    IF i > Len(t) THEN << >>
    ELSE IF i < Len(t) /\ t[i] = NewLine /\ t[i + 1] = NewLine
         THEN DropDoubleBreaks(t, i + 2)
         ELSE << t[i] >> \o DropDoubleBreaks(t, i + 1)

\* text.replace(/([^>])\n([^<])/g, '$1 $2'), from position i on: a match
\* takes the character before the break and the one after it, and the search
\* goes on behind them
RECURSIVE JoinLines(_, _)
JoinLines(t, i) ==
    IF i > Len(t) THEN << >>
    ELSE IF i + 2 <= Len(t) /\ t[i] # ">" /\ t[i + 1] = NewLine /\ t[i + 2] # "<"
         THEN << t[i], " ", t[i + 2] >> \o JoinLines(t, i + 3)
         ELSE << t[i] >> \o JoinLines(t, i + 1)

formatResponse(text) ==
    JoinLines(DropDoubleBreaks(WrapParagraphs(text, 1), 1), 1)

\* ------------------------------------------------------------------------
\* The API server (mcp-server-fixed.js, port 4000) and the meal endpoint of
\* the port-4001 server.  A request is the JSON body, or the route and query
\* parameters, that the handler reads; a response is its status and its JSON
\* body.
\* ------------------------------------------------------------------------

MaxUsers == 2

\* A string given by its characters
Text(chars) == [text |-> chars]

\* The verification token of the n-th registration: two random base-36 runs
\* and the clock, which differ from one registration to the next
Token(n) == [token |-> n]

\* 'user-' + Date.now() of the n-th registration
UserIdOf(n) == [userNo |-> n]

EmptyObject == << >>

NoReply == [endpoint |-> "none"]

SrvInitState ==
    /\ users = << >>
    /\ users4001 = << >>
    /\ files = EmptyObject
    /\ reply = NoReply

\* res.status(status).json(body), kept with the request it answers
Send(server, endpoint, request, status, body) ==
    reply' = [ server |-> server, endpoint |-> endpoint, request |-> request,
               status |-> status, body |-> body ]

\* model.generateContent(prompt): the model's text, or an exception
ModelOutcomes ==
    { [threw |-> TRUE, message |-> Str("fetch failed")],
      [threw |-> FALSE, text |-> << "a", NewLine, "b" >>] }

\* ---- file endpoints ----

FileNames == {"notes.txt"}

FileContents == {"x", "y"}

\* GET /list
ListFiles ==
    /\ Send(4000, "/list", EmptyObject, 200,
            [ files |-> [names |-> DOMAIN files] ])
    /\ UNCHANGED << users, users4001, files >>
    /\ UNCHANGED << ptVars, hcVars, call, clVars, spVars >>

\* GET /read/:filename
ReadFile(filename) ==
    /\ IF filename \in DOMAIN files
       THEN Send(4000, "/read", [filename |-> Str(filename)], 200,
                 [ filename |-> Str(filename), content |-> Str(files[filename]) ])
       ELSE Send(4000, "/read", [filename |-> Str(filename)], 500,
                 [ error |-> Str("Failed to read file") ])
    /\ UNCHANGED << users, users4001, files >>
    /\ UNCHANGED << ptVars, hcVars, call, clVars, spVars >>

WriteBodies ==
    { WithOptional(WithOptional(EmptyObject, "filename", f), "content", c) :
        f \in {Undefined} \cup {Str(n) : n \in FileNames},
        c \in {Undefined} \cup {Str(x) : x \in FileContents} }

\* POST /write: path.join and fs.writeFile throw on an undefined argument
WriteFile(body) ==
    /\ LET filename == Get(body, "filename")
           content == Get(body, "content")
       IN  IF IsStr(filename) /\ IsStr(content)
           THEN /\ files' = With(files, filename.str, content.str)
                /\ Send(4000, "/write", body, 200,
                        [ message |-> Str(filename.str \o " saved!") ])
           ELSE /\ files' = files
                /\ Send(4000, "/write", body, 500,
                        [ error |-> Str("Failed to write file") ])
    /\ UNCHANGED << users, users4001 >>
    /\ UNCHANGED << ptVars, hcVars, call, clVars, spVars >>

\* DELETE /delete/:filename
DeleteFile(filename) ==
    /\ IF filename \in DOMAIN files
       THEN /\ files' = [ n \in DOMAIN files \ {filename} |-> files[n] ]
            /\ Send(4000, "/delete", [filename |-> Str(filename)], 200,
                    [ message |-> Str(filename \o " deleted.") ])
       ELSE /\ files' = files
            /\ Send(4000, "/delete", [filename |-> Str(filename)], 500,
                    [ error |-> Str("Failed to delete file") ])
    /\ UNCHANGED << users, users4001 >>
    /\ UNCHANGED << ptVars, hcVars, call, clVars, spVars >>

\* ---- endpoints that ask the model ----

ChatBodies ==
    { WithOptional(EmptyObject, "message", m) :
        m \in {Undefined, Str(""), Str("I have a fever")} }

\* POST /chat
Chat(body, out) ==
    /\ LET message == Get(body, "message")
       IN  IF ~Truthy(message)
           THEN Send(4000, "/chat", body, 400,
                     [ error |-> Str("Message is required") ])
           ELSE IF out.threw
           THEN Send(4000, "/chat", body, 500,
                     [ error |-> Str("Failed to get response from Gemini API"),
                       details |-> out.message,
                       success |-> Bool(FALSE) ])
           ELSE Send(4000, "/chat", body, 200,
                     [ reply |-> Text(formatResponse(out.text)),
                       success |-> Bool(TRUE) ])
    /\ UNCHANGED << users, users4001, files >>
    /\ UNCHANGED << ptVars, hcVars, call, clVars, spVars >>

SymptomBodies ==
    { WithOptional(WithOptional(EmptyObject, "symptoms", s), "userInfo", u) :
        s \in {Undefined, Str("fever")}, u \in {Undefined, Str("adult")} }

\* POST /analyze-symptoms
AnalyzeSymptoms(body, out) ==
    /\ LET symptoms == Get(body, "symptoms")
       IN  IF ~Truthy(symptoms)
           THEN Send(4000, "/analyze-symptoms", body, 400,
                     [ error |-> Str("Symptoms description is required") ])
           ELSE IF out.threw
           THEN Send(4000, "/analyze-symptoms", body, 500,
                     [ error |-> Str("Error analyzing symptoms"),
                       message |-> out.message,
                       success |-> Bool(FALSE) ])
           ELSE Send(4000, "/analyze-symptoms", body, 200,
                     [ analysis |-> Text(formatResponse(out.text)),
                       success |-> Bool(TRUE) ])
    /\ UNCHANGED << users, users4001, files >>
    /\ UNCHANGED << ptVars, hcVars, call, clVars, spVars >>

ImageBodies ==
    { WithOptional(WithOptional(EmptyObject, "image", i), "description", d) :
        i \in {Undefined, Str("data:image/png;base64,AAAA"), Num(1)},
        d \in {Undefined, Str("rash")} }

\* POST /analyze-image: image.split is a TypeError unless image is a string
AnalyzeImage(body, out) ==
    /\ LET image == Get(body, "image")
       IN  IF ~Truthy(image)
           THEN Send(4000, "/analyze-image", body, 400,
                     [ error |-> Str("Image data is required") ])
           ELSE IF ~IsStr(image)
           THEN Send(4000, "/analyze-image", body, 500,
                     [ error |-> Str("Error analyzing image"),
                       message |-> Str("image.split is not a function"),
                       success |-> Bool(FALSE) ])
           ELSE IF out.threw
           THEN Send(4000, "/analyze-image", body, 500,
                     [ error |-> Str("Error analyzing image"),
                       message |-> out.message,
                       success |-> Bool(FALSE) ])
           ELSE Send(4000, "/analyze-image", body, 200,
                     [ analysis |-> Text(formatResponse(out.text)),
                       success |-> Bool(TRUE) ])
    /\ UNCHANGED << users, users4001, files >>
    /\ UNCHANGED << ptVars, hcVars, call, clVars, spVars >>

\* The request bodies of the meal endpoint: each field present or not; the
\* page that sends symptoms sends their severity with them
MealBodies ==
    { WithOptional(WithOptional(WithOptional(WithOptional(WithOptional(EmptyObject,
          "symptoms", s),
          "severity", IF s = Undefined THEN Undefined ELSE Str("moderate")),
          "preferences", p),
          "restrictions", r),
          "healthGoals", g) :
        s \in {Undefined, Str("fever")},
        p \in {Undefined, Str("Vegetarian")},
        r \in {Undefined, Str("Lactose intolerant")},
        g \in {Undefined, Str("Weight loss, control blood sugar")} }

\* POST /recommend-meals of the port-4000 server
RecommendMeals(body, out) ==
    /\ LET symptoms == Get(body, "symptoms")
       IN  IF ~Truthy(symptoms)
           THEN Send(4000, "/recommend-meals", body, 400,
                     [ error |-> Str("Symptoms description is required") ])
           ELSE IF out.threw
           THEN Send(4000, "/recommend-meals", body, 500,
                     [ error |-> Str("Error generating meal recommendations"),
                       message |-> out.message,
                       success |-> Bool(FALSE) ])
           ELSE Send(4000, "/recommend-meals", body, 200,
                     [ recommendations |-> Text(formatResponse(out.text)),
                       success |-> Bool(TRUE) ])
    /\ UNCHANGED << users, users4001, files >>
    /\ UNCHANGED << ptVars, hcVars, call, clVars, spVars >>

\* POST /recommend-meals of the port-4001 server
RecommendMeals4001(body, out) ==
    /\ LET preferences == Get(body, "preferences")
           restrictions == Get(body, "restrictions")
           healthGoals == Get(body, "healthGoals")
       IN  IF ~Truthy(preferences) /\ ~Truthy(restrictions) /\ ~Truthy(healthGoals)
           THEN Send(4001, "/recommend-meals", body, 400,
                     [ error |-> Str("At least one parameter is required") ])
           ELSE IF out.threw
           THEN Send(4001, "/recommend-meals", body, 500,
                     [ error |-> Str("Error generating meal recommendations"),
                       message |-> out.message,
                       success |-> Bool(FALSE) ])
           ELSE Send(4001, "/recommend-meals", body, 200,
                     [ recommendations |-> Text(formatResponse(out.text)),
                       success |-> Bool(TRUE) ])
    /\ UNCHANGED << users, users4001, files >>
    /\ UNCHANGED << ptVars, hcVars, call, clVars, spVars >>

\* ---- health records ----

RecordBodies ==
    { WithOptional(WithOptional(WithOptional(EmptyObject,
          "userId", u), "recordType", t), "data", d) :
        u \in {Undefined, Str("u1")},
        t \in {Undefined, Str("symptom")},
        d \in {Undefined, [description |-> Str("Fever and sore throat")]} }

\* POST /save-health-record
SaveHealthRecord(body) ==
    /\ IF \/ ~Truthy(Get(body, "userId"))
          \/ ~Truthy(Get(body, "recordType"))
          \/ ~Truthy(Get(body, "data"))
       THEN Send(4000, "/save-health-record", body, 400,
                 [ error |-> Str("User ID, record type, and data are required") ])
       ELSE Send(4000, "/save-health-record", body, 200,
                 [ success |-> Bool(TRUE),
                   message |-> Str("Health record saved successfully") ])
    /\ UNCHANGED << users, users4001, files >>
    /\ UNCHANGED << ptVars, hcVars, call, clVars, spVars >>

mockRecords ==
    << [ id |-> Str("rec123"), date |-> Str("2023-06-15"), type |-> Str("symptom"),
         data |-> [ description |-> Str("Fever and sore throat"),
                    severity |-> Str("moderate"),
                    duration |-> Str("2 days") ] ] >>

RecordTypes == {Undefined, Str("symptom"), Str("weight")}

\* GET /get-health-records/:userId?recordType=...: the route matches only a
\* non-empty userId
GetHealthRecords(user, recordType) ==
    /\ LET filteredRecords ==
               IF Truthy(recordType)
               THEN SelectSeq(mockRecords, LAMBDA record : record.type = recordType)
               ELSE mockRecords
       IN  Send(4000, "/get-health-records",
                WithOptional([userId |-> Str(user)], "recordType", recordType),
                200, [ records |-> Arr(filteredRecords) ])
    /\ UNCHANGED << users, users4001, files >>
    /\ UNCHANGED << ptVars, hcVars, call, clVars, spVars >>

\* ---- authentication ----

Emails == {"asha@example.in", "ravi@example.in"}

Passwords == {"secret"}

VerifyBodies ==
    { WithOptional(WithOptional(EmptyObject, "email", e), "token", t) :
        e \in {Undefined} \cup {Str(x) : x \in Emails},
        t \in {Undefined, Str("guess")} \cup {Token(n) : n \in 1..MaxUsers} }

\* VerifyIndex looking the record up by its email alone
VerifyIndex_EmailOnly(us, email, token) ==
    LET found == { i \in 1..Len(us) : us[i].email = email }
    IN  IF found = {} THEN 0 ELSE CHOOSE i \in found : \A j \in found : i <= j

\* global.users.findIndex(u => u.email === email && u.verificationToken === token),
\* counted from 1; 0 when no record matches
VerifyIndex(us, email, token) ==
    LET found == { i \in 1..Len(us) :
                     us[i].email = email /\ us[i].verificationToken = token }
    IN  IF found = {} THEN 0 ELSE CHOOSE i \in found : \A j \in found : i <= j

\* POST /auth/verify
AuthVerify(body) ==
    /\ LET email == Get(body, "email")
           token == Get(body, "token")
           userIndex == VerifyIndex(users, email, token)
       IN  IF ~Truthy(email) \/ ~Truthy(token)
           THEN /\ users' = users
                /\ Send(4000, "/auth/verify", body, 400,
                        [ error |-> Str("Email and verification token are required") ])
           ELSE IF userIndex = 0
           THEN /\ users' = users
                /\ Send(4000, "/auth/verify", body, 400,
                        [ error |-> Str("Invalid verification token or email") ])
           ELSE /\ users' = [ users EXCEPT ![userIndex].verified = Bool(TRUE),
                                           ![userIndex].verificationToken = Null ]
                /\ Send(4000, "/auth/verify", body, 200,
                        [ success |-> Bool(TRUE),
                          message |-> Str("Email verification successful"),
                          user |-> [ id |-> users[userIndex].id,
                                     name |-> users[userIndex].name,
                                     email |-> users[userIndex].email,
                                     role |-> users[userIndex].role ],
                          token |-> Str("verified-jwt-token") ])
    /\ UNCHANGED << users4001, files >>
    /\ UNCHANGED << ptVars, hcVars, call, clVars, spVars >>

LoginBodies ==
    { WithOptional(WithOptional(EmptyObject, "email", e), "password", p) :
        e \in {Undefined} \cup {Str(x) : x \in Emails},
        p \in {Undefined, Str("wrong")} \cup {Str(x) : x \in Passwords} }

\* global.users.find(u => u.email === email && u.password === password),
\* by its index counted from 1; 0 when no record matches
LoginIndex(us, email, password) ==
    LET found == { i \in 1..Len(us) :
                     us[i].email = email /\ us[i].password = password }
    IN  IF found = {} THEN 0 ELSE CHOOSE i \in found : \A j \in found : i <= j

\* POST /auth/login
AuthLogin(body) ==
    /\ LET email == Get(body, "email")
           password == Get(body, "password")
           found == LoginIndex(users, email, password)
       IN  IF ~Truthy(email) \/ ~Truthy(password)
           THEN Send(4000, "/auth/login", body, 400,
                     [ error |-> Str("Email and password are required") ])
           ELSE IF found = 0
           THEN Send(4000, "/auth/login", body, 401,
                     [ error |-> Str("Invalid credentials") ])
           ELSE IF ~Truthy(users[found].verified)
           THEN Send(4000, "/auth/login", body, 403,
                     [ error |-> Str("Email not verified"),
                       verificationRequired |-> Bool(TRUE) ])
           ELSE Send(4000, "/auth/login", body, 200,
                     [ success |-> Bool(TRUE),
                       user |-> [ id |-> users[found].id,
                                  name |-> users[found].name,
                                  email |-> users[found].email,
                                  role |-> users[found].role ],
                       token |-> Str("auth-jwt-token") ])
    /\ UNCHANGED << users, users4001, files >>
    /\ UNCHANGED << ptVars, hcVars, call, clVars, spVars >>

RegisterBodies ==
    { WithOptional(WithOptional(WithOptional(EmptyObject,
          "name", n), "email", e), "password", p) :
        n \in {Undefined, Str("Asha")},
        e \in {Undefined} \cup {Str(x) : x \in Emails},
        p \in {Undefined} \cup {Str(x) : x \in Passwords} }

\* POST /auth/register: every complete request stores a new record; the
\* store holds at most MaxUsers records
AuthRegister(body) ==
    /\ LET name == Get(body, "name")
           email == Get(body, "email")
           password == Get(body, "password")
           userData == [ id |-> UserIdOf(Len(users) + 1),
                         name |-> name,
                         email |-> email,
                         password |-> password,
                         role |-> Str("patient"),
                         verified |-> Bool(FALSE),
                         verificationToken |-> Token(Len(users) + 1) ]
       IN  IF ~Truthy(name) \/ ~Truthy(email) \/ ~Truthy(password)
           THEN /\ users' = users
                /\ Send(4000, "/auth/register", body, 400,
                        [ error |-> Str("Name, email, and password are required") ])
           ELSE /\ Len(users) < MaxUsers
                /\ users' = Append(users, userData)
                /\ Send(4000, "/auth/register", body, 200,
                        [ success |-> Bool(TRUE),
                          message |-> Str("Registration successful. Please verify your email."),
                          verificationRequired |-> Bool(TRUE) ])
    /\ UNCHANGED << users4001, files >>
    /\ UNCHANGED << ptVars, hcVars, call, clVars, spVars >>

\* ---- authentication on the port-4001 server ----

\* POST /register of the port-4001 server: an email is stored once
Register4001(body) ==
    /\ LET name == Get(body, "name")
           email == Get(body, "email")
           password == Get(body, "password")
           userData == [ id |-> UserIdOf(Len(users4001) + 1),
                         name |-> name,
                         email |-> email,
                         password |-> password,
                         role |-> Str("patient"),
                         verified |-> Bool(FALSE),
                         verificationToken |-> Token(Len(users4001) + 1) ]
       IN  IF ~Truthy(name) \/ ~Truthy(email) \/ ~Truthy(password)
           THEN /\ users4001' = users4001
                /\ Send(4001, "/register", body, 400,
                        [ error |-> Str("Name, email, and password are required") ])
           ELSE IF \E i \in 1..Len(users4001) : users4001[i].email = email
           THEN /\ users4001' = users4001
                /\ Send(4001, "/register", body, 409,
                        [ error |-> Str("User already exists") ])
           ELSE /\ Len(users4001) < MaxUsers
                /\ users4001' = Append(users4001, userData)
                /\ Send(4001, "/register", body, 200,
                        [ success |-> Bool(TRUE),
                          message |-> Str("Registration successful. Please verify your email."),
                          verificationRequired |-> Bool(TRUE) ])
    /\ UNCHANGED << users, files >>
    /\ UNCHANGED << ptVars, hcVars, call, clVars, spVars >>

\* POST /verify of the port-4001 server: the record keeps its token
Verify4001(body) ==
    /\ LET email == Get(body, "email")
           token == Get(body, "token")
           userIndex == VerifyIndex(users4001, email, token)
       IN  IF ~Truthy(email) \/ ~Truthy(token)
           THEN /\ users4001' = users4001
                /\ Send(4001, "/verify", body, 400,
                        [ error |-> Str("Email and verification token are required") ])
           ELSE IF userIndex = 0
           THEN /\ users4001' = users4001
                /\ Send(4001, "/verify", body, 400,
                        [ error |-> Str("Invalid verification") ])
           ELSE /\ users4001' = [ users4001 EXCEPT ![userIndex].verified = Bool(TRUE) ]
                /\ Send(4001, "/verify", body, 200,
                        [ success |-> Bool(TRUE),
                          message |-> Str("Account verified successfully. You can now log in.") ])
    /\ UNCHANGED << users, files >>
    /\ UNCHANGED << ptVars, hcVars, call, clVars, spVars >>

\* POST /login of the port-4001 server
Login4001(body) ==
    /\ LET email == Get(body, "email")
           password == Get(body, "password")
           found == LoginIndex(users4001, email, password)
       IN  IF ~Truthy(email) \/ ~Truthy(password)
           THEN Send(4001, "/login", body, 400,
                     [ error |-> Str("Email and password are required") ])
           ELSE IF found = 0
           THEN Send(4001, "/login", body, 401,
                     [ error |-> Str("Invalid credentials") ])
           ELSE IF ~Truthy(users4001[found].verified)
           THEN Send(4001, "/login", body, 403,
                     [ error |-> Str("Account not verified"),
                       verificationRequired |-> Bool(TRUE) ])
           ELSE Send(4001, "/login", body, 200,
                     [ success |-> Bool(TRUE),
                       user |-> [ id |-> users4001[found].id,
                                  name |-> users4001[found].name,
                                  email |-> users4001[found].email,
                                  role |-> users4001[found].role ] ])
    /\ UNCHANGED << users, users4001, files >>
    /\ UNCHANGED << ptVars, hcVars, call, clVars, spVars >>

\* GET /health
Health ==
    /\ Send(4000, "/health", EmptyObject, 200,
            [ status |-> Str("ok"), message |-> Str("MCP Server is running") ])
    /\ UNCHANGED << users, users4001, files >>
    /\ UNCHANGED << ptVars, hcVars, call, clVars, spVars >>

\* ------------------------------------------------------------------------
\* The client's Auth object (html_pages/js/auth.js).  Where the characters
\* of a string matter it is the sequence of its UTF-16 code units.
\* ------------------------------------------------------------------------

\* a ^ b
RECURSIVE Xor(_, _)
Xor(a, b) ==
    IF a = 0 THEN b
    ELSE IF b = 0 THEN a
    ELSE ((a + b) % 2) + 2 * Xor(a \div 2, b \div 2)

\* 'healthsync_secure_key_2023'
SECRET_KEY ==
    << 104, 101, 97, 108, 116, 104, 115, 121, 110, 99, 95, 115, 101, 99, 117,
       114, 101, 95, 107, 101, 121, 95, 50, 48, 50, 51 >>

\* text.charCodeAt(i) ^ secretKey.charCodeAt(i % secretKey.length), for each i
XorWithKey(text, secretKey) ==
    [ i \in 1..Len(text) |-> Xor(text[i], secretKey[((i - 1) % Len(secretKey)) + 1]) ]

\* The base64 string that encodes the given bytes
Base64(bytes) == [b64 |-> bytes]

\* btoa throws on a character outside Latin1
btoaThrows(chars) == \E i \in 1..Len(chars) : chars[i] > 255

encryptThrows(text, secretKey) == btoaThrows(XorWithKey(text, secretKey))

encrypt(text, secretKey) == Base64(XorWithKey(text, secretKey))

\* atob throws on a string that is no base64
atobThrows(encoded) == "b64" \notin DOMAIN encoded

\* decrypt catches the exception of atob and gives null
decrypt(encoded, secretKey) ==
    IF atobThrows(encoded) THEN Null
    ELSE Text(XorWithKey(encoded.b64, secretKey))

\* The user object of a login response, by the code units of its name; its
\* other members are the same ASCII strings for every user here
UserNamed(name) ==
    [ id |-> Str("user-1"), name |-> Text(name),
      email |-> Str("asha@example.in"), role |-> Str("patient") ]

\* JSON.stringify(user): the braces and, of the members, the code units of
\* the name
Stringify(user) == << 123 >> \o user.name.text \o << 125 >>

\* 'null'
NullText == << 110, 117, 108, 108 >>

\* JSON.parse(value) throws on a text that is neither null nor an object;
\* JSON.parse(null) reads the text 'null'
ParseThrows(value) ==
    /\ value # Null
    /\ value.text # NullText
    /\ ~( /\ Len(value.text) >= 2
          /\ value.text[1] = 123
          /\ value.text[Len(value.text)] = 125 )

Parse(value) ==
    IF value = Null THEN Null
    ELSE IF value.text = NullText THEN Null
    ELSE UserNamed(SubSeq(value.text, 2, Len(value.text) - 1))

\* ToBoolean of what localStorage.getItem gives: null and '' are falsy
StoredTruthy(item) ==
    CASE item = Null -> FALSE
      [] "b64" \in DOMAIN item -> item.b64 # << >>
      [] OTHER -> Truthy(item)

ClInitState ==
    /\ tokenItem = Null
    /\ userItem = Null
    /\ isAuthenticated = FALSE
    /\ currentUser = Null
    /\ authEvent = [op |-> "none"]

\* The items and the fields of auth, as a method finds them
AuthNow ==
    [ tokenItem |-> tokenItem, userItem |-> userItem,
      isAuthenticated |-> isAuthenticated, currentUser |-> currentUser ]

\* auth.checkAuth()
checkAuth ==
    /\ IF StoredTruthy(tokenItem) /\ StoredTruthy(userItem)
       THEN IF ParseThrows(decrypt(userItem, SECRET_KEY))
            THEN /\ tokenItem' = Null
                 /\ userItem' = Null
                 /\ isAuthenticated' = FALSE
                 /\ currentUser' = Null
                 /\ authEvent' = [op |-> "checkAuth", returned |-> FALSE,
                                  before |-> AuthNow]
            ELSE /\ currentUser' = Parse(decrypt(userItem, SECRET_KEY))
                 /\ isAuthenticated' = TRUE
                 /\ authEvent' = [op |-> "checkAuth", returned |-> TRUE,
                                  before |-> AuthNow]
                 /\ UNCHANGED << tokenItem, userItem >>
       ELSE /\ authEvent' = [op |-> "checkAuth", returned |-> FALSE,
                             before |-> AuthNow]
            /\ UNCHANGED << tokenItem, userItem, isAuthenticated, currentUser >>
    /\ UNCHANGED << ptVars, hcVars, call, srvVars, spVars >>

\* The names a user may have registered with: 'A', and the Devanagari
\* letter U+0906
UserNames == { << 65 >>, << 2310 >> }

\* What the fetch of /auth/login may give: a rejection or a body that is no
\* JSON, or one of the JSON bodies of the endpoint
LoginOutcomes ==
    { [rejected |-> TRUE] }
    \cup { [ rejected |-> FALSE,
             data |-> [ success |-> Bool(TRUE), user |-> UserNamed(n),
                        token |-> Str("auth-jwt-token") ] ] : n \in UserNames }
    \cup { [ rejected |-> FALSE, data |-> [ error |-> Str("Invalid credentials") ] ],
           [ rejected |-> FALSE,
             data |-> [ error |-> Str("Email not verified"),
                        verificationRequired |-> Bool(TRUE) ] ] }

\* auth.login(email, password), up to the value its promise resolves to,
\* with out the outcome of its fetch
login(out) ==
    /\ IF out.rejected
       THEN /\ authEvent' = [op |-> "login", returned |-> FALSE, outcome |-> out,
                             redirect |-> "none", before |-> AuthNow]
            /\ UNCHANGED << tokenItem, userItem, isAuthenticated, currentUser >>
       ELSE IF ~Truthy(Get(out.data, "success"))
       THEN /\ authEvent' = [op |-> "login", returned |-> FALSE, outcome |-> out,
                             redirect |-> IF Truthy(Get(out.data, "verificationRequired"))
                                          THEN "verify.html" ELSE "none",
                             before |-> AuthNow]
            /\ UNCHANGED << tokenItem, userItem, isAuthenticated, currentUser >>
       ELSE IF encryptThrows(Stringify(out.data.user), SECRET_KEY)
       THEN /\ tokenItem' = out.data.token
            /\ authEvent' = [op |-> "login", returned |-> FALSE, outcome |-> out,
                             redirect |-> "none", before |-> AuthNow]
            /\ UNCHANGED << userItem, isAuthenticated, currentUser >>
       ELSE /\ tokenItem' = out.data.token
            /\ userItem' = encrypt(Stringify(out.data.user), SECRET_KEY)
            /\ currentUser' = out.data.user
            /\ isAuthenticated' = TRUE
            /\ authEvent' = [op |-> "login", returned |-> TRUE, outcome |-> out,
                             redirect |-> "index.html", before |-> AuthNow]
    /\ UNCHANGED << ptVars, hcVars, call, srvVars, spVars >>

\* auth.logout()
logout ==
    /\ tokenItem' = Null
    /\ userItem' = Null
    /\ isAuthenticated' = FALSE
    /\ currentUser' = Null
    /\ authEvent' = [op |-> "logout", before |-> AuthNow]
    /\ UNCHANGED << ptVars, hcVars, call, srvVars, spVars >>

\* Values of the user-data item that the module did not write: a string
\* that is no base64, the base64 of bytes that decrypt to no JSON, and the
\* encrypted text 'null'
ForeignItems ==
    { Str("%%%"), Base64(<< 1, 2 >>), encrypt(NullText, SECRET_KEY) }

\* Another script of the origin, or the user through the browser's tools,
\* sets the user-data item: localStorage is shared and outlives the page.
StorageWrite(item) ==
    /\ userItem' = item
    /\ authEvent' = [op |-> "storage"]
    /\ UNCHANGED << tokenItem, isAuthenticated, currentUser >>
    /\ UNCHANGED << ptVars, hcVars, call, srvVars, spVars >>

\* The Auth object of a page, method call after method call
NextClient ==
    \/ checkAuth
    \/ \E out \in LoginOutcomes : login(out)
    \/ logout
    \/ \E item \in ForeignItems : StorageWrite(item)

\* ------------------------------------------------------------------------
\* The symptom-prediction module (src/unnamed/part_001)
\* ------------------------------------------------------------------------

\* Fetches the module may issue in one page session
MaxSpRequests == 3

SpElementIds == {"prediction-container", "prediction-results", "analysis-results"}

\* What localStorage.getItem('userId') may give
SpUserIds == {Null, Str(""), Str("u1")}

AlertWarning(t) == [kind |-> "alert-warning", text |-> t]

SpLoading(t) == [kind |-> "loading", text |-> t]

SpRequest(kind, user) == [kind |-> kind, user |-> user]

SPInitState ==
    /\ spUserId = Null
    /\ spListening = FALSE
    /\ spDom = [e \in SpElementIds |-> Empty]
    /\ spPending = << >>
    /\ spIssued = 0
    /\ spEvent = [op |-> "none"]

\* The effect of loadPredictions on the page and the fetches in flight
loadPredictions(st) ==
    [ dom |-> [st.dom EXCEPT !["prediction-results"] =
                   SpLoading("Loading predictions...")],
      pending |-> Append(st.pending, SpRequest("predictions", st.user)) ]

\* The effect of loadAnalysis on the page and the fetches in flight
loadAnalysis(st) ==
    [ dom |-> [st.dom EXCEPT !["analysis-results"] =
                   SpLoading("Analyzing symptom patterns...")],
      pending |-> Append(st.pending, SpRequest("analysis", st.user)) ]

\* SpInitLoads without the early return of init
SpInitLoads_NoReturn(user) == << "predictions", "analysis" >>

\* The loads SymptomPrediction.init makes for the user id it found: none
\* without one
SpInitLoads(user) ==
    IF Truthy(user) THEN << "predictions", "analysis" >> ELSE << >>

\* SymptomPrediction.init, with user the value of the userId item
SPInit(user) ==
    /\ spEvent.op = "none"
    /\ spUserId' = user
    /\ spIssued + Len(SpInitLoads(user)) <= MaxSpRequests
    /\ IF SpInitLoads(user) = << >>
       THEN /\ spDom' = [spDom EXCEPT !["prediction-container"] =
                   AlertWarning("Please log in to view symptom predictions")]
            /\ UNCHANGED << spListening, spPending >>
       ELSE LET st == [dom |-> spDom, pending |-> spPending, user |-> user]
                p == loadPredictions(st)
                a == loadAnalysis([dom |-> p.dom, pending |-> p.pending, user |-> user])
            IN  /\ spListening' = Truthy(user)
                /\ spDom' = a.dom
                /\ spPending' = a.pending
    /\ spIssued' = spIssued + Len(SpInitLoads(user))
    /\ spEvent' = [op |-> "init"]
    /\ UNCHANGED << ptVars, hcVars, call, srvVars, clVars >>

\* click on #refresh-predictions or #refresh-analysis: the listener, where
\* one was registered, runs the load
SpRefresh(kind) ==
    /\ spListening
    /\ spIssued + 1 <= MaxSpRequests
    /\ LET st == [dom |-> spDom, pending |-> spPending, user |-> spUserId]
           eff == IF kind = "predictions" THEN loadPredictions(st) ELSE loadAnalysis(st)
       IN  /\ spDom' = eff.dom
           /\ spPending' = eff.pending
    /\ spIssued' = spIssued + 1
    /\ spEvent' = [op |-> "refresh", kind |-> kind]
    /\ UNCHANGED << spUserId, spListening >>
    /\ UNCHANGED << ptVars, hcVars, call, srvVars, clVars >>

OnePrediction ==
    [ date |-> Str("2024-02-01"), predicted_classification |-> Str("flu-like"),
      confidence |-> Num(1), possible_symptoms |-> Arr(<< Str("fever") >>) ]

\* What a fetch of the module may come to: a rejection, an answer that is
\* not ok with or without detail, or an ok answer with one of the bodies
SpOutcomes(kind) ==
    { [ok |-> FALSE, message |-> "Failed to fetch"],
      [ok |-> FALSE, message |-> "No symptom logs"],
      [ok |-> FALSE, message |-> IF kind = "predictions"
                                 THEN "Failed to load predictions"
                                 ELSE "Failed to load analysis"] }
    \cup IF kind = "predictions"
         THEN { [ok |-> TRUE, data |-> [predictions |-> p]] :
                    p \in {Undefined, Arr(<< >>), Arr(<< OnePrediction >>)} }
         ELSE { [ok |-> TRUE, data |-> [analysis |-> a]] :
                    a \in {Undefined, AnalysisMessage, Analysis(<< >>, << >>)} }

\* renderPredictions(predictions)
renderPredictions(predictions) ==
    IF ~Truthy(predictions) \/ predictions.arr = << >>
    THEN AlertInfo(Str("No predictions available"))
    ELSE [kind |-> "prediction-timeline", cards |-> predictions.arr]

\* The content the promise chain of a load leaves in its container
SpSettled(kind, out) ==
    IF ~out.ok THEN AlertDanger(out.message)
    ELSE IF kind = "predictions" THEN renderPredictions(out.data.predictions)
    ELSE IF renderAnalysisThrows(out.data.analysis)
    THEN AlertDanger("Cannot read properties of undefined (reading 'message')")
    ELSE renderAnalysis(out.data.analysis)

\* The fetch at position i of the fetches in flight comes to out
SpSettle(i, out) ==
    /\ i \in 1..Len(spPending)
    /\ out \in SpOutcomes(spPending[i].kind)
    /\ spDom' = [spDom EXCEPT
           ![IF spPending[i].kind = "predictions"
             THEN "prediction-results" ELSE "analysis-results"] =
               SpSettled(spPending[i].kind, out)]
    /\ spPending' = SubSeq(spPending, 1, i - 1) \o SubSeq(spPending, i + 1, Len(spPending))
    /\ spEvent' = [op |-> "settle", kind |-> spPending[i].kind, outcome |-> out]
    /\ UNCHANGED << spUserId, spListening, spIssued >>
    /\ UNCHANGED << ptVars, hcVars, call, srvVars, clVars >>

SPNext ==
    \/ \E user \in SpUserIds : SPInit(user)
    \/ \E kind \in {"predictions", "analysis"} : SpRefresh(kind)
    \/ \E i \in 1..MaxSpRequests :
           \E out \in SpOutcomes("predictions") \cup SpOutcomes("analysis") :
               SpSettle(i, out)

\* ------------------------------------------------------------------------
\* Specifications: each module of the page on its own, the other at rest
\* ------------------------------------------------------------------------

NoCall == [fn |-> "none"]

Init ==
    /\ PTInitState /\ HCInitState /\ call = NoCall /\ SrvInitState
    /\ ClInitState /\ SPInitState

Next == PTNext

Spec == Init /\ [][Next]_vars

NextTips == HCNext

SpecTips == Init /\ [][NextTips]_vars

\* The tracker and the consultation module belong to two different pages: a
\* page session runs the handlers of one of them.
NextPages ==
    \/ hcEvent.op = "none" /\ PTNext
    \/ lastEvent.op = "none" /\ HCNext

SpecPages == Init /\ [][NextPages]_vars

\* ------------------------------------------------------------------------
\* Renderers and helpers called on their own, on arguments drawn from the
\* values they are written for
\* ------------------------------------------------------------------------

\* ProgressTracker.renderHealthReport(data)
CallRenderHealthReport(data) ==
    /\ call' = [ fn |-> "renderHealthReport", arg |-> data,
                 threw |-> renderHealthReportThrows(data),
                 result |-> IF renderHealthReportThrows(data) THEN Undefined
                            ELSE renderHealthReport(data) ]
    /\ UNCHANGED << ptVars, hcVars, srvVars, clVars, spVars >>

\* The lists of insights an analysis carries
InsightsOptions == { << >>, << Str("Keep going") >>,
                     << Str("Keep going"), Str("Well done") >> }

WeightPayloads == { WithInsights(WeightOk, ins) : ins \in InsightsOptions } \cup {WeightFail}

BpPayloads == { WithInsights(BpOk, ins) : ins \in InsightsOptions } \cup {BpFail}

GoalPayloads ==
    { WithInsights(GoalOk(pp), ins) : pp \in {0, 50, 100}, ins \in InsightsOptions }
    \cup {GoalFail}

\* ProgressTracker.renderWeightInsights(data)
CallRenderWeightInsights(data) ==
    /\ call' = [ fn |-> "renderWeightInsights", arg |-> data,
                 threw |-> renderWeightInsightsThrows(data),
                 result |-> IF renderWeightInsightsThrows(data) THEN Undefined
                            ELSE renderWeightInsights(data) ]
    /\ UNCHANGED << ptVars, hcVars, srvVars, clVars, spVars >>

\* ProgressTracker.renderBloodPressureInsights(data)
CallRenderBloodPressureInsights(data) ==
    /\ call' = [ fn |-> "renderBloodPressureInsights", arg |-> data,
                 threw |-> FALSE, result |-> renderBloodPressureInsights(data) ]
    /\ UNCHANGED << ptVars, hcVars, srvVars, clVars, spVars >>

\* ProgressTracker.renderGoalProgress(data)
CallRenderGoalProgress(data) ==
    /\ call' = [ fn |-> "renderGoalProgress", arg |-> data,
                 threw |-> FALSE, result |-> renderGoalProgress(data) ]
    /\ UNCHANGED << ptVars, hcVars, srvVars, clVars, spVars >>

\* SymptomPrediction.renderAnalysis(analysis)
CallRenderAnalysis(analysis) ==
    /\ call' = [ fn |-> "renderAnalysis", arg |-> analysis,
                 threw |-> renderAnalysisThrows(analysis),
                 result |-> IF renderAnalysisThrows(analysis) THEN Undefined
                            ELSE renderAnalysis(analysis) ]
    /\ UNCHANGED << ptVars, hcVars, srvVars, clVars, spVars >>

\* Longest list of correlations handed to renderCorrelations
MaxCorrelations == 3

CorrelationEntries ==
    { Correlation("milk", "bloating", "high", 80, 4),
      Correlation("coffee", "headache", "medium", 55, 3),
      Correlation("bread", "fatigue", "weak", 20, 1) }

\* The sequences over S of length n
RECURSIVE SeqsOfLen(_, _)
SeqsOfLen(S, n) ==
    IF n = 0 THEN { << >> }
    ELSE { Append(q, x) : q \in SeqsOfLen(S, n - 1), x \in S }

\* The bodies of the correlations endpoint: a list of up to MaxCorrelations
\* entries, or a body without the list
CorrelationsPayloads ==
    { [ user_id |-> Str("u1"), correlations |-> Arr(q) ] :
        q \in UNION { SeqsOfLen(CorrelationEntries, n) : n \in 0..MaxCorrelations } }
    \cup { [ user_id |-> Str("u1") ] }

\* renderCorrelations(data)
CallRenderCorrelations(data) ==
    /\ call' = [ fn |-> "renderCorrelations", arg |-> data,
                 threw |-> FALSE, result |-> renderCorrelations(data) ]
    /\ UNCHANGED << ptVars, hcVars, srvVars, clVars, spVars >>

Measurement(date, kg) == [date |-> Str(date), weight_kg |-> Num(kg)]

Measurements ==
    { Measurement(d, kg) : d \in {"2024-01-01", "2024-01-30"}, kg \in {75, 80} }

\* The successful weight trends: each measurement one of Measurements or
\* missing
WeightTrends ==
    { WithOptional(WithOptional(
          [ status |-> Success, total_change_kg |-> Num(-5), percent_change |-> Num(-6),
            weekly_change_rate_kg |-> Num(-1), trend |-> Str("decreasing"),
            insights |-> Arr(<< >>) ],
          "first_measurement", f),
          "latest_measurement", l) :
        f \in Measurements \cup {Undefined}, l \in Measurements \cup {Undefined} }

\* ProgressTracker.renderWeightChart(data)
CallRenderWeightChart(data) ==
    /\ call' = [ fn |-> "renderWeightChart", arg |-> data,
                 threw |-> FALSE, result |-> renderWeightChart(data) ]
    /\ UNCHANGED << ptVars, hcVars, srvVars, clVars, spVars >>

\* The keys listed in each table
CategoryKeys ==
    { "normal", "elevated", "hypertension_stage_1", "hypertension_stage_2",
      "hypertensive_crisis", "unknown" }

GoalTypeKeys == { "weight", "blood_sugar", "blood_pressure" }

\* The values of data.category and data.goal_type the mappers are tried on:
\* the listed keys, other strings (a listed key in another case, the empty
\* string, names of members of Object.prototype), a number and no value
MapperKeys ==
    { Str(k) : k \in CategoryKeys \cup GoalTypeKeys
                     \cup { "Normal", "WEIGHT", "prehypertension", "" }
                     \cup ObjectPrototypeKeys }
    \cup { Num(5), Undefined }

\* categoryMap[data.category] || data.category
CallCategoryLabel(key) ==
    /\ call' = [ fn |-> "categoryMap", arg |-> key, threw |-> FALSE,
                 result |-> CategoryLabel(key) ]
    /\ UNCHANGED << ptVars, hcVars, srvVars, clVars, spVars >>

\* goalTypeMap[data.goal_type] || data.goal_type
CallGoalTypeLabel(key) ==
    /\ call' = [ fn |-> "goalTypeMap", arg |-> key, threw |-> FALSE,
                 result |-> GoalTypeLabel(key) ]
    /\ UNCHANGED << ptVars, hcVars, srvVars, clVars, spVars >>

\* Longest text handed to formatResponse
MaxChars == 5

\* The texts without markdown markers: letters and line breaks
PlainTexts == UNION { SeqsOfLen({"a", "b", NewLine}, n) : n \in 0..MaxChars }

\* formatResponse(text)
CallFormatResponse(text) ==
    /\ call' = [ fn |-> "formatResponse", arg |-> text, threw |-> FALSE,
                 result |-> formatResponse(text) ]
    /\ UNCHANGED << ptVars, hcVars, srvVars, clVars, spVars >>

NextCalls ==
    \/ \E text \in PlainTexts : CallFormatResponse(text)
    \/ \E key \in MapperKeys : CallCategoryLabel(key)
    \/ \E key \in MapperKeys : CallGoalTypeLabel(key)
    \/ \E data \in WeightTrends : CallRenderWeightChart(data)
    \/ \E data \in CorrelationsPayloads : CallRenderCorrelations(data)
    \/ \E data \in Reports \cup {ReportFail} : CallRenderHealthReport(data)
    \/ \E data \in WeightPayloads : CallRenderWeightInsights(data)
    \/ \E data \in BpPayloads : CallRenderBloodPressureInsights(data)
    \/ \E data \in GoalPayloads : CallRenderGoalProgress(data)
    \/ \E analysis \in Analyses \cup {Undefined} : CallRenderAnalysis(analysis)

SpecCalls == Init /\ [][NextCalls]_vars

\* ------------------------------------------------------------------------
\* The API server answering one request after another
\* ------------------------------------------------------------------------

NextServer ==
    \/ ListFiles
    \/ \E filename \in FileNames : ReadFile(filename)
    \/ \E body \in WriteBodies : WriteFile(body)
    \/ \E filename \in FileNames : DeleteFile(filename)
    \/ \E body \in ChatBodies, out \in ModelOutcomes : Chat(body, out)
    \/ \E body \in SymptomBodies, out \in ModelOutcomes : AnalyzeSymptoms(body, out)
    \/ \E body \in ImageBodies, out \in ModelOutcomes : AnalyzeImage(body, out)
    \/ \E body \in MealBodies, out \in ModelOutcomes : RecommendMeals(body, out)
    \/ \E body \in MealBodies, out \in ModelOutcomes : RecommendMeals4001(body, out)
    \/ \E body \in RecordBodies : SaveHealthRecord(body)
    \/ \E user \in UserIds, recordType \in RecordTypes : GetHealthRecords(user, recordType)
    \/ \E body \in VerifyBodies : AuthVerify(body)
    \/ \E body \in LoginBodies : AuthLogin(body)
    \/ \E body \in RegisterBodies : AuthRegister(body)
    \/ Health

SpecServer == Init /\ [][NextServer]_vars

\* The register, verify and login endpoints of each server
AuthNext ==
    \/ \E body \in RegisterBodies : AuthRegister(body)
    \/ \E body \in VerifyBodies : AuthVerify(body)
    \/ \E body \in LoginBodies : AuthLogin(body)

Auth4001Next ==
    \/ \E body \in RegisterBodies : Register4001(body)
    \/ \E body \in VerifyBodies : Verify4001(body)
    \/ \E body \in LoginBodies : Login4001(body)

\* No request has been sent to another server than the given one.
OnlyServer(server) == IF reply.endpoint = "none" THEN TRUE ELSE reply.server = server

\* The two servers are separate processes, each with its own user store: a
\* session sends its requests to one of them.
NextAuth ==
    \/ OnlyServer(4000) /\ AuthNext
    \/ OnlyServer(4001) /\ Auth4001Next

SpecAuth == Init /\ [][NextAuth]_vars

SpecClient == Init /\ [][NextClient]_vars

\* The consultation module and the symptom-prediction module are scripts of
\* two different pages: a page session runs the handlers of one of them.
NextModules ==
    \/ spEvent.op = "none" /\ HCNext
    \/ hcEvent.op = "none" /\ SPNext

SpecModules == Init /\ [][NextModules]_vars

\* ------------------------------------------------------------------------
\* Properties of the progress tracker (under Spec)
\* ------------------------------------------------------------------------

\* The handler that ran last applied a JSON body to a load of the given kind.
AppliedData(kind) ==
    /\ lastEvent.op = "response"
    /\ lastEvent.kind = kind
    /\ ~lastEvent.rejected

\* The handler that ran last applied a body whose status is not 'success'.
AppliedFailure(kind) ==
    /\ AppliedData(kind)
    /\ Get(lastEvent.data, "status") # Success

\* The container in which a load shows the message of a failure body
MessageSurface(kind) ==
    CASE kind = "weight-trend" -> "weight-chart-container"
      [] kind = "blood-pressure-trend" -> "bp-chart-container"
      [] kind = "goal-progress" -> "goal-progress-container"
      [] kind = "health-report" -> "health-report-container"

LoadKinds == {"weight-trend", "blood-pressure-trend", "goal-progress", "health-report"}

AppliedReportWithFailedSection ==
    /\ AppliedData("health-report")
    /\ Get(lastEvent.data, "status") = Success
    /\ \E f \in {"weight_analysis", "blood_pressure_analysis"} :
          /\ Truthy(Get(lastEvent.data, f))
          /\ Get(Get(lastEvent.data, f), "status") # Success

\* C2 (as claimed): a successful health report whose weight_analysis or
\* blood_pressure_analysis section is present with a failure status is
\* rendered without an error being raised: the catch handler does not run
\* and the container holds the report with its other sections.
C2_FailedSectionRendersReport ==
    AppliedReportWithFailedSection =>
        /\ ~lastEvent.caught
        /\ dom["health-report-container"].kind = "health-report"

\* The kind of load a tab stands for
TabLoadKind(tabId) ==
    CASE tabId = "weight-tab" -> "weight-trend"
      [] tabId = "blood-pressure-tab" -> "blood-pressure-trend"
      [] tabId = "goals-tab" -> "goal-progress"
      [] tabId = "report-tab" -> "health-report"

\* C3 (as claimed): after a click on any of the four tabs the clicked tab and
\* its content are the active ones, the handler has raised no error, and the
\* request sent last is the load of that tab.
C3_TabSelectionStartsLoad ==
    lastEvent.op = "tab-click" =>
        /\ ~lastEvent.threw
        /\ activeTabs = {lastEvent.tab}
        /\ activeContents = {ContentOf(lastEvent.tab)}
        /\ pending # << >>
        /\ pending[Len(pending)].kind = TabLoadKind(lastEvent.tab)

\* C4: after init, and after any sequence of tab selections, exactly one tab
\* is active and exactly one content surface is active, the one of that tab.
C4_OneActiveTab ==
    listening =>
        \E t \in TabIds :
            /\ activeTabs = {t}
            /\ activeContents = {ContentOf(t)}

\* The report tab was selected while the goals tab was the active one.
C4_Witness ==
    /\ lastEvent.op = "tab-click"
    /\ lastEvent.tab = "report-tab"
    /\ lastEvent.from = {"goals-tab"}
    /\ activeTabs = {"report-tab"}

\* C5: a click on the blood-pressure tab while the weight tab is the active
\* one sends exactly one request, the blood-pressure trend for the current
\* day count, and no weight-trend request.
C5_BpSelectionSendsOneBpLoad ==
    [][ ( /\ lastEvent'.op = "tab-click"
          /\ lastEvent'.tab = "blood-pressure-tab"
          /\ activeTabs = {"weight-tab"} )
        => pending' = Append(pending, loadBloodPressureTrend(userId, currentDays)) ]_vars

\* The blood-pressure tab was selected from the weight tab and its load is in
\* flight.
C5_Witness ==
    /\ lastEvent.op = "tab-click"
    /\ lastEvent.tab = "blood-pressure-tab"
    /\ lastEvent.from = {"weight-tab"}
    /\ pending # << >>
    /\ pending[Len(pending)].kind = "blood-pressure-trend"

C7_RangeChangeOnOtherTabsOnlyStores ==
    [][ ( /\ lastEvent'.op = "time-range"
          /\ activeTabs \in {{"goals-tab"}, {"report-tab"}} )
        => /\ pending' = pending
           /\ issued' = issued
           /\ currentDays' = lastEvent'.days
           /\ UNCHANGED << userId, listening, charts, activeTabs, activeContents, dom >> ]_vars

\* The range was changed to 7 days on the goals tab.
C7_Witness ==
    /\ lastEvent.op = "time-range"
    /\ lastEvent.days = 7
    /\ activeTabs = {"goals-tab"}
    /\ currentDays = 7

\* C8 (as claimed): a submission of the goal form whose target value is not
\* a finite number is rejected with the alert, and no goal-progress request
\* carries a target that is not a finite number.
C8_NonFiniteTargetRejected ==
    /\ (lastEvent.op = "goal-submit" /\ ~IsNum(lastEvent.target)) => lastEvent.alerted
    /\ \A i \in 1..Len(pending) :
          pending[i].kind = "goal-progress" => IsNum(pending[i].target_value)

\* How many of the pieces of text t are the sign "%"
RECURSIVE PercentSigns(_)
PercentSigns(t) ==
    IF t = << >> THEN 0
    ELSE (IF Head(t) = Str("%") THEN 1 ELSE 0) + PercentSigns(Tail(t))

\* The progress bar of a rendered goal card
BarOf(card) == card.body[5]

\* C9 (as claimed): once a goal-progress body with status 'success' has been
\* rendered, the width of the progress bar and the value it displays lie in
\* 0..100, and the displayed value carries the sign "%" exactly once.
C9_ProgressWithinRange ==
    ( AppliedData("goal-progress") /\ Get(lastEvent.data, "status") = Success ) =>
        LET bar == BarOf(dom["goal-progress-container"]) IN
        /\ bar.width[1].num \in 0..100
        /\ bar.text[1].num \in 0..100
        /\ PercentSigns(bar.text) = 1

\* ------------------------------------------------------------------------
\* Properties of the health-tips cache (under SpecTips)
\* ------------------------------------------------------------------------

\* C10: once a fetch has delivered the tips of a category, every later
\* selection of that category sends no request and shows the tips held in the
\* cache; a failed fetch leaves the cache as it was, and a selection of a
\* category no fetch has delivered yet (never fetched, or fetched only with
\* failures) sends one request for it.  The bodies delivered are arrays of
\* tips, the parameter type renderHealthTips documents; the empty array is
\* among them.
C10_CacheServesFetchedCategories ==
    [][ /\ hcEvent'.op = "select" =>
            IF hcEvent'.category \in fetchedOk
            THEN /\ hcPending' = hcPending
                 /\ hcIssued' = hcIssued
                 /\ Truthy(healthTips[hcEvent'.category])
                 /\ hcContent'["health-tips-content"] =
                       renderHealthTips(healthTips[hcEvent'.category],
                                        hcContent["health-tips-content"])
            ELSE hcPending' = Append(hcPending,
                                     HcRequest("health-tips", hcEvent'.category))
        /\ (hcEvent'.op = "response" /\ ~hcEvent'.ok) => healthTips' = healthTips ]_vars

\* A category whose fetch delivered an empty list of tips was selected again
\* and served from the cache.
C10_Witness ==
    /\ hcEvent.op = "select"
    /\ hcEvent.category \in fetchedOk
    /\ hcEvent.fetched = 0
    /\ hcContent["health-tips-content"].kind = "no-tips"

\* ------------------------------------------------------------------------
\* Properties of transport failures (under SpecPages)
\* ------------------------------------------------------------------------

\* The generic message each load of the tracker shows when its fetch fails
TrackerTryAgainLater(kind) ==
    CASE kind = "weight-trend" -> "Error loading weight data. Please try again later."
      [] kind = "blood-pressure-trend" ->
            "Error loading blood pressure data. Please try again later."
      [] kind = "goal-progress" -> "Error tracking goal progress. Please try again later."
      [] kind = "health-report" -> "Error loading health report. Please try again later."

\* The element on which each load of the consultation page shows its failure,
\* with the generic message it shows there
HcFailureSurface(kind) ==
    CASE kind = "consultation" -> "consultation-error"
      [] kind = "correlations" -> "correlations-error"
      [] kind = "health-tips" -> "health-tips-content"

HcTryAgainLater(kind) ==
    CASE kind = "consultation" ->
            TextContent("Unable to load your health consultation. Please try again later.")
      [] kind = "correlations" ->
            TextContent("Unable to analyze food-symptom correlations. Please try again later.")
      [] kind = "health-tips" ->
            AlertDanger("Unable to load health tips. Please try again later.")

\* The elements of the consultation page that belong to a load
HcElementsOf(kind) ==
    CASE kind = "consultation" ->
            {"consultation-loading", "consultation-content", "consultation-error"}
      [] kind = "correlations" ->
            {"correlations-loading", "correlations-content", "correlations-error"}
      [] kind = "health-tips" -> {"health-tips-content"}

ReportRendered ==
    /\ call.fn = "renderHealthReport"
    /\ Get(call.arg, "status") = Success
    /\ ~call.threw

\* The headers of the cards of a rendered report, in order
Headers(report) == [i \in 1..Len(report.sections) |-> report.sections[i].header]

SectionOrder ==
    << "User Information", "Summary", "Weight Analysis", "Blood Pressure Analysis",
       "Nutrition Summary", "Symptom Patterns", "Recommendations" >>

\* The place of a header in the fixed order
OrderIndex(h) == CHOOSE i \in 1..Len(SectionOrder) : SectionOrder[i] = h

HasHeader(report, h) == \E i \in 1..Len(report.sections) : report.sections[i].header = h

\* C12: the cards of a rendered successful report follow the fixed order
\* identity, summary, weight analysis, blood-pressure analysis, nutrition
\* summary, symptom patterns, recommendations, each at most once; a section
\* whose data is absent from the report has no card at all, and neither has
\* the recommendations section when the list is empty.
C12_SectionsInOrderWithoutGaps ==
    ReportRendered =>
        LET hs == Headers(call.result) IN
        /\ \A i \in 1..Len(hs) : \E k \in 1..Len(SectionOrder) : SectionOrder[k] = hs[i]
        /\ \A i, j \in 1..Len(hs) : i < j => OrderIndex(hs[i]) < OrderIndex(hs[j])
        /\ IsUndefined(Get(call.arg, "weight_analysis"))
              => ~HasHeader(call.result, "Weight Analysis")
        /\ IsUndefined(Get(call.arg, "blood_pressure_analysis"))
              => ~HasHeader(call.result, "Blood Pressure Analysis")
        /\ IsUndefined(Get(call.arg, "nutrition_summary"))
              => ~HasHeader(call.result, "Nutrition Summary")
        /\ IsUndefined(Get(call.arg, "symptom_patterns"))
              => ~HasHeader(call.result, "Symptom Patterns")
        /\ ~NonEmptyArr(Get(call.arg, "recommendations"))
              => ~HasHeader(call.result, "Recommendations")
        /\ Len(hs) = 2 + Cardinality({ h \in { SectionOrder[k] : k \in 3..7 } :
                                          HasHeader(call.result, h) })

\* A report with a blood-pressure section and symptom patterns, without weight
\* and nutrition sections and with an empty recommendations list, was rendered.
C12_Witness ==
    /\ ReportRendered
    /\ Get(call.arg, "recommendations") = Arr(<< >>)
    /\ IsUndefined(Get(call.arg, "weight_analysis"))
    /\ Headers(call.result) =
          << "User Information", "Summary", "Blood Pressure Analysis", "Symptom Patterns" >>

\* The sub-section is present in the report and its own status is 'success'.
SubSectionSucceeded(report, f) ==
    /\ Truthy(Get(report, f))
    /\ Get(Get(report, f), "status") = Success

Headings(markup) ==
    { markup.body[i].text : i \in { j \in 1..Len(markup.body) :
                                      markup.body[j].tag \in {"h4", "h5"} } }

InsightsRenderers ==
    { "renderWeightInsights", "renderBloodPressureInsights", "renderGoalProgress",
      "renderAnalysis" }

\* One of the four analysis renderers completed on a successful analysis
\* (status 'success'; for the symptom analysis, which has no status member, a
\* body that is an analysis and not a message).
RenderedSuccessfulAnalysis ==
    /\ call.fn \in InsightsRenderers
    /\ ~call.threw
    /\ IF call.fn = "renderAnalysis"
       THEN ~Truthy(Get(call.arg, "message"))
       ELSE Get(call.arg, "status") = Success

\* C14 (as claimed): whenever one of the four analysis renderers (weight,
\* blood pressure, goal progress, symptom analysis) has rendered a successful
\* analysis whose insights list is empty, its output has no 'Insights'
\* heading.
C14_NoInsightsHeadingForEmptyList ==
    ( RenderedSuccessfulAnalysis /\ Get(call.arg, "insights") = Arr(<< >>) ) =>
        Headings(call.result) \cap {"Insights", "Insights:"} = {}

\* The table rows and the stand-alone informational messages of the markup
\* renderCorrelations produced
TableRows(markup) == IF markup.kind = "table" THEN markup.rows ELSE << >>

StandAloneMessages(markup) == IF markup.kind = "no-correlations" THEN 1 ELSE 0

\* C15: for a body whose correlations list is empty or missing,
\* renderCorrelations produces exactly one informational message and no table
\* row; for a non-empty list it produces one table row per entry, the i-th row
\* showing the i-th entry, and no message in place of the table.
C15_OneRowPerCorrelationInOrder ==
    call.fn = "renderCorrelations" =>
        LET list == Get(call.arg, "correlations")
            rows == TableRows(call.result)
        IN  IF NonEmptyArr(list)
            THEN /\ Len(rows) = Len(list.arr)
                 /\ \A i \in 1..Len(rows) :
                       /\ rows[i].food = list.arr[i].food
                       /\ rows[i].symptom = list.arr[i].symptom
                       /\ rows[i].confidence = list.arr[i].confidence
                       /\ rows[i].correlation[1] = list.arr[i].correlation_percentage
                       /\ rows[i].correlation[3] = list.arr[i].occurrences
                 /\ StandAloneMessages(call.result) = 0
            ELSE /\ rows = << >>
                 /\ StandAloneMessages(call.result) = 1

\* A list of three entries, the first and the last different, was rendered.
C15_Witness ==
    /\ call.fn = "renderCorrelations"
    /\ NonEmptyArr(Get(call.arg, "correlations"))
    /\ Len(call.arg.correlations.arr) = 3
    /\ call.arg.correlations.arr[1] # call.arg.correlations.arr[3]
    /\ Len(call.result.rows) = 3

\* C16: the series renderWeightChart hands to the chart has as many labels as
\* values; when both measurements are there it has exactly one point, the
\* first measurement, if the two dates are equal, and exactly two points, the
\* first measurement and then the latest, if they differ.
C16_WeightSeriesPoints ==
    call.fn = "renderWeightChart" =>
        LET chart == call.result.chart
            first == Get(call.arg, "first_measurement")
            latest == Get(call.arg, "latest_measurement")
        IN  /\ Len(chart.labels) = Len(chart.data)
            /\ (Truthy(first) /\ Truthy(latest)) =>
                  IF first.date = latest.date
                  THEN chart.data = << first.weight_kg >>
                  ELSE chart.data = << first.weight_kg, latest.weight_kg >>

\* A trend whose two measurements carry the same date and different weights
\* was drawn with one point.
C16_Witness ==
    /\ call.fn = "renderWeightChart"
    /\ Truthy(Get(call.arg, "first_measurement"))
    /\ Truthy(Get(call.arg, "latest_measurement"))
    /\ call.arg.first_measurement.date = call.arg.latest_measurement.date
    /\ call.arg.first_measurement.weight_kg # call.arg.latest_measurement.weight_kg
    /\ Len(call.result.chart.data) = 1

\* The key is, letter for letter, one of the keys the table of the mapper
\* called lists.
ListedKey ==
    /\ IsStr(call.arg)
    /\ call.arg.str \in (IF call.fn = "categoryMap" THEN CategoryKeys ELSE GoalTypeKeys)

\* C17 (as claimed): the category mapper and the goal-type mapper raise no
\* error; for a listed key they give the label of the table, and for every
\* other key they give the key back unchanged.
C17_MapperEchoesUnlistedKeys ==
    call.fn \in {"categoryMap", "goalTypeMap"} =>
        /\ ~call.threw
        /\ IF ListedKey
           THEN /\ IsStr(call.result)
                /\ call.result = (IF call.fn = "categoryMap" THEN categoryMap(call.arg)
                                  ELSE goalTypeMap(call.arg))
           ELSE call.result = call.arg

\* C18 (as claimed): a second pass of formatResponse over what it made of a
\* text without markdown markers changes nothing.
C18_FormatResponseIdempotent ==
    call.fn = "formatResponse" => formatResponse(call.result) = call.result


\* ------------------------------------------------------------------------
\* Properties of the API server (under SpecServer)
\* ------------------------------------------------------------------------

\* The port-4000 server has answered a request.
FixedServerReplied == reply.endpoint # "none" /\ reply.server = 4000

\* C19: every JSON response of the port-4000 server carries a boolean
\* success field, true with status 200 and false with every error status,
\* the 400 responses for missing request fields included.
C19_EveryResponseHasSuccessFlag ==
    FixedServerReplied =>
        /\ "success" \in DOMAIN reply.body
        /\ reply.body.success = Bool(reply.status = 200)

\* The request body the README documents for the meal endpoint
DocumentedMealBody ==
    [ preferences |-> Str("Vegetarian"),
      restrictions |-> Str("Lactose intolerant"),
      healthGoals |-> Str("Weight loss, control blood sugar") ]

\* C20: POST /recommend-meals with the documented body (preferences,
\* restrictions, healthGoals, no symptoms) is not answered with status 400.
C20_DocumentedMealBodyPassesValidation ==
    ( /\ reply.endpoint = "/recommend-meals"
      /\ reply.request = DocumentedMealBody ) => reply.status # 400


\* ------------------------------------------------------------------------
\* Overlapping loads of the progress tracker (under Spec)
\* ------------------------------------------------------------------------

\* What the handlers of the fetch answered last make of the surfaces dm
AppliedLast(dm, ch) ==
    IF lastEvent.rejected
    THEN OnRejected(lastEvent.kind, dm, ch)
    ELSE OnData(lastEvent.kind, lastEvent.data, dm, ch)

\* The surfaces show the outcome that arrived last: applying it once more
\* changes nothing.
ShowsLastArrival ==
    lastEvent.op = "response" =>
        /\ AppliedLast(dom, charts).dom = dom
        /\ AppliedLast(dom, charts).charts = charts

\* A step that applies an outcome takes exactly the answered fetch out of the
\* fetches in flight and writes what its handlers make of the surfaces; every
\* other step leaves the fetches in flight where they are, in front of the
\* ones it adds.
NoLoadDiscarded ==
    [][ IF lastEvent'.op = "response" /\ Len(pending') < Len(pending)
        THEN /\ \E i \in 1..Len(pending) :
                    /\ pending[i] = lastEvent'.request
                    /\ pending' = SubSeq(pending, 1, i - 1)
                                   \o SubSeq(pending, i + 1, Len(pending))
             /\ dom' = (IF lastEvent'.rejected
                        THEN OnRejected(lastEvent'.kind, dom, charts)
                        ELSE OnData(lastEvent'.kind, lastEvent'.data, dom, charts)).dom
        ELSE /\ Len(pending') >= Len(pending)
             /\ SubSeq(pending', 1, Len(pending)) = pending ]_vars

\* C21: no load in flight is cancelled or discarded; every outcome that
\* arrives is applied to its surface, so the surface shows the outcome that
\* arrived last, also when it answers the earlier of two overlapping loads.
C21_LastArrivalWins == []ShowsLastArrival /\ NoLoadDiscarded

\* Two weight-trend loads overlapped (the one of init for 30 days, the one of
\* the time range for 7 days); the answer to the later one came first, and the
\* answer to the earlier one, applied last, is what the surface shows.
C21_Witness ==
    /\ lastEvent.op = "response"
    /\ lastEvent.kind = "weight-trend"
    /\ lastEvent.request.days = DefaultDays
    /\ currentDays = 7
    /\ activeTabs = {"weight-tab"}
    /\ issued = 2
    /\ pending = << >>
    /\ lastEvent.data = WeightOk
    /\ dom["weight-chart-container"] = renderWeightChart(WeightOk)


\* ------------------------------------------------------------------------
\* The health-tips cache over a page session (under SpecTips)
\* ------------------------------------------------------------------------

\* C22 (as claimed): a cache entry that holds tips is not removed and not
\* replaced by any later step, whatever the order of category selections and
\* fetch responses.
C22_CacheEntryNeverReplaced ==
    [][ \A category \in TipCategories :
            TipsCached(healthTips, category) =>
                healthTips'[category] = healthTips[category] ]_vars


\* ------------------------------------------------------------------------
\* Loading indicators (under Spec)
\* ------------------------------------------------------------------------

\* C23 (as claimed, for the loads of the progress tracker): while a load is
\* in flight, a surface of that load shows a loading indicator.
C23_LoadingShownWhileInFlight ==
    \A i \in 1..Len(pending) :
        \E s \in SurfacesOf(pending[i].kind) : dom[s].kind = "loading"


\* ------------------------------------------------------------------------
\* The auth flow of the servers (under SpecAuth)
\* ------------------------------------------------------------------------

LoginEndpoints == {"/auth/login", "/login"}

VerifyEndpoints == {"/auth/verify", "/verify"}

\* The user store of the server that sent the last response
StoreOf(server) == IF server = 4000 THEN users ELSE users4001

\* The last response answers a login request.
LoginAnswered == reply.endpoint \in LoginEndpoints

\* C24 (as claimed): once a record with the email and the password of a login
\* request is verified (which only a verify request with the token issued at
\* its registration brings about), the port-4000 server answers that login
\* with success, whatever was registered before.
C24_LoginSucceedsAfterVerify ==
    ( /\ reply.endpoint = "/auth/login"
      /\ \E i \in 1..Len(users) :
            /\ users[i].email = Get(reply.request, "email")
            /\ users[i].password = Get(reply.request, "password")
            /\ users[i].verified = Bool(TRUE) ) => reply.status = 200

\* A successful login names a stored record that is verified and has the
\* email and the password of the request.
LoginOnlyForVerified ==
    (LoginAnswered /\ reply.status = 200) =>
        \E i \in 1..Len(StoreOf(reply.server)) :
            LET u == StoreOf(reply.server)[i] IN
                /\ u.id = reply.body.user.id
                /\ u.email = Get(reply.request, "email")
                /\ u.password = Get(reply.request, "password")
                /\ u.verified = Bool(TRUE)

\* In the step from the store old to the store new, answered by rep, a record
\* is verified in new without having been so in old only if rep is the
\* success of a verify request with that record's email and the token it
\* held in old.
VerifiedOnlyByVerify(old, new, rep) ==
    \A i \in 1..Len(new) :
        ( /\ new[i].verified = Bool(TRUE)
          /\ (i > Len(old) \/ old[i].verified # Bool(TRUE)) ) =>
            /\ i <= Len(old)
            /\ rep.endpoint \in VerifyEndpoints
            /\ rep.status = 200
            /\ Get(rep.request, "email") = old[i].email
            /\ Get(rep.request, "token") = old[i].verificationToken

\* C25: a login succeeds only for a stored record whose verified flag is
\* true, and the flag of a record becomes true only through a successful
\* verify request with that record's email and its current token; so
\* register and login requests alone never lead to a successful login.
C25_LoginNeedsVerification ==
    /\ []LoginOnlyForVerified
    /\ [][ /\ VerifiedOnlyByVerify(users, users', reply')
           /\ VerifiedOnlyByVerify(users4001, users4001', reply') ]_vars

\* A login has succeeded on the port-4000 server for the second of two
\* stored records, the first one not being verified.
C25_Witness ==
    /\ reply.endpoint = "/auth/login"
    /\ reply.status = 200
    /\ Len(users) = 2
    /\ users[1].verified = Bool(FALSE)
    /\ reply.body.user.id = users[2].id

\* The request rep is a verify request with the email of a record of the
\* store that is already verified and with the token issued to that record
\* at its registration.
RepeatsVerification(store, rep) ==
    /\ rep.endpoint \in VerifyEndpoints
    /\ \E i \in 1..Len(store) :
          /\ store[i].verified = Bool(TRUE)
          /\ Get(rep.request, "email") = store[i].email
          /\ Get(rep.request, "token") = Token(i)

\* C26 (as claimed): a verify request that repeats, with the same email and
\* the same token, a verification that has succeeded is answered with
\* status 400.
C26_TokenIsSingleUse ==
    [][ RepeatsVerification(StoreOf(reply'.server), reply') =>
            reply'.status = 400 ]_vars

\* C27: Auth.login is all or nothing.  When it returns false the two stored
\* items, isAuthenticated and currentUser are what they were before the
\* call; when it returns true the token and the encoded user data are
\* stored and isAuthenticated and currentUser reflect the user of the
\* response.
C27_LoginAllOrNothing ==
    authEvent.op = "login" =>
        IF authEvent.returned
        THEN /\ tokenItem = authEvent.outcome.data.token
             /\ decrypt(userItem, SECRET_KEY)
                    = Text(Stringify(authEvent.outcome.data.user))
             /\ isAuthenticated
             /\ currentUser = authEvent.outcome.data.user
        ELSE AuthNow = authEvent.before

\* The stored user data that cannot be decoded: no base64, or no JSON
\* behind the cipher
Undecodable(item) ==
    /\ item # Null
    /\ \/ atobThrows(item)
       \/ ParseThrows(decrypt(item, SECRET_KEY))

\* C28: whenever Auth.checkAuth returns true, isAuthenticated is true and
\* currentUser is a user record, not null, decoded from the stored user
\* data; and when a token is stored but the stored user data cannot be
\* decoded, checkAuth returns false and the session is cleared.
C28_CheckAuthSound ==
    authEvent.op = "checkAuth" =>
        /\ authEvent.returned =>
              /\ isAuthenticated
              /\ currentUser # Null
              /\ decrypt(authEvent.before.userItem, SECRET_KEY)
                     = Text(Stringify(currentUser))
        /\ ( /\ StoredTruthy(authEvent.before.tokenItem)
             /\ Undecodable(authEvent.before.userItem) ) =>
              /\ ~authEvent.returned
              /\ tokenItem = Null
              /\ userItem = Null
              /\ ~isAuthenticated
              /\ currentUser = Null

\* C29: after a transport failure of a weight-trend or blood-pressure-trend
\* load, the chart area of that surface shows the error message and its
\* insights area shows no insights card of an earlier successful response.
C29_FailureShowsOnlyError ==
    ( /\ lastEvent.op = "response"
      /\ lastEvent.rejected
      /\ lastEvent.kind \in {"weight-trend", "blood-pressure-trend"} ) =>
        LET chart == IF lastEvent.kind = "weight-trend"
                     THEN "weight-chart-container" ELSE "bp-chart-container"
            insights == IF lastEvent.kind = "weight-trend"
                        THEN "weight-insights" ELSE "bp-insights"
        IN  /\ dom[chart].kind = "alert-danger"
            /\ dom[insights].kind # "card"

\* C30: when no user id is available at initialisation, the
\* symptom-prediction module and the health-consultation module each show
\* their notice, issue no network request and register no event listener,
\* and so no request is issued at any later time of the session either.
C30_NoUserIdNoRequest ==
    /\ ( spEvent.op # "none" /\ ~Truthy(spUserId) ) =>
          /\ spDom["prediction-container"]
                 = AlertWarning("Please log in to view symptom predictions")
          /\ spIssued = 0
          /\ spPending = << >>
          /\ ~spListening
    /\ ( hcEvent.op # "none" /\ hcUserId = "null" ) =>
          /\ hcContent["consultation-error"]
                 = TextContent("User ID not found. Please log in again.")
          /\ hcContent["correlations-error"]
                 = TextContent("User ID not found. Please log in again.")
          /\ {"consultation-error", "correlations-error"} \cap hcHidden = {}
          /\ hcIssued = 0
          /\ hcPending = << >>
          /\ ~hcListening

C30_Witness ==
    /\ spEvent.op = "init"
    /\ spUserId = Null
    /\ spDom["prediction-container"].kind = "alert-warning"
    /\ spDom["prediction-results"] = Empty
    /\ spIssued = 0

============================================================================
